---- MODULE Spec2Model ----
(***************************************************************************)
(* Model of the catalog query engine of ankittk/catalog-service            *)
(* (internal/service/service.go): an immutable id -> service map, and the  *)
(* three read operations ListServices, GetService and GetServiceVersions.  *)
(*                                                                         *)
(* Strings the code inspects byte by byte (names, descriptions, search     *)
(* queries, page tokens) are sequences of byte values; strings the code    *)
(* only compares for equality (ids, organization ids, sort fields, error   *)
(* codes) are TLA+ strings.  Times are whole unix seconds.                 *)
(***************************************************************************)
EXTENDS Integers, Sequences, FiniteSets, TLC

VARIABLES
    data,    \* CatalogService.data : map[string]*model.Service
    req,     \* the request of the call made last (NoReq when none)
    loc,     \* the locals of the ListServices call made last
    resp,    \* the (response, error) pair the call made last returned
    pages,   \* services received since the last request with an empty token
    chain,   \* state of the token-following client: none/open/complete/broken
    fetched, \* calls the token-following client has made for the listing it is paging
    calls,   \* the calls of the concurrent callers: position, request, locals, result
    slices,  \* the slices the calls in flight have allocated: address -> elements
    boot,    \* the start of the process: the document read and what loading it gave
    auth,    \* the authentication layer: the clock and the request it handled last
    logs,    \* package logger: globalLogger, once, mu and the goroutines that use them
    srv      \* startServers: the context, the errs channel, the servers and goroutines

vars == <<data, req, loc, resp, pages, chain, fetched, calls, slices, boot, auth, logs, srv>>

(***************************************************************************)
(* Bounds of the model.                                                    *)
(***************************************************************************)
MaxServices == 3      \* most services in the store
MaxInflight == 2       \* requests a server handles at the same time
MaxTime == 3          \* the clock of the authentication layer runs from 0 to MaxTime

(***************************************************************************)
(* Program constants.                                                      *)
(***************************************************************************)
MaxPageSize == 100
DefaultPageSize == 10

ErrServiceNotFound == "service not found"
ErrInvalidRequest == "invalid request"

validSortFields == {"name", "created_at", "updated_at"}
validSortOrders == {"asc", "desc"}

(***************************************************************************)
(* Byte strings.                                                           *)
(***************************************************************************)
\* the byte values of the characters used
Byte == [sp |-> 32, plus |-> 43, minus |-> 45, zero |-> 48,
         A |-> 65, B |-> 66, a |-> 97, b |-> 98, x |-> 120]

\* "page_"
PagePrefix == <<112, 97, 103, 101, 95>>

\* unicode.ToLower on one ASCII byte
LowerByte(c) == IF c >= 65 /\ c <= 90 THEN c + 32 ELSE c

\* strings.ToLower
ToLower(s) == [i \in 1..Len(s) |-> LowerByte(s[i])]

\* strings.Contains(s, substr)
Contains(s, substr) ==
    \E i \in 0..(Len(s) - Len(substr)) :
        \A j \in 1..Len(substr) : s[i + j] = substr[j]

\* strings.HasPrefix(s, prefix)
HasPrefix(s, prefix) ==
    /\ Len(s) >= Len(prefix)
    /\ \A j \in 1..Len(prefix) : s[j] = prefix[j]

\* strings.TrimPrefix(s, prefix)
TrimPrefix(s, prefix) ==
    IF HasPrefix(s, prefix) THEN SubSeq(s, Len(prefix) + 1, Len(s)) ELSE s

\* the Go operator < on strings: bytewise lexicographic order
RECURSIVE StrLess(_, _)
StrLess(a, b) ==
    IF Len(b) = 0 THEN FALSE
    ELSE IF Len(a) = 0 THEN TRUE
    ELSE IF a[1] # b[1] THEN a[1] < b[1]
    ELSE StrLess(Tail(a), Tail(b))

IsDigit(c) == c >= 48 /\ c <= 57

\* the value of a non-empty string of decimal digits
RECURSIVE DigitsValue(_)
DigitsValue(s) ==
    IF Len(s) = 0 THEN 0
    ELSE 10 * DigitsValue(SubSeq(s, 1, Len(s) - 1)) + (s[Len(s)] - 48)

\* strconv.Atoi: an optional sign followed by one or more decimal digits.
\* The result is <<value>> on success and <<>> on a syntax error.  (Range
\* errors need more than 18 digits and do not occur for the tokens sent.)
Atoi(s) ==
    LET signed == Len(s) > 0 /\ s[1] \in {Byte.plus, Byte.minus}
        digits == IF signed THEN Tail(s) ELSE s
    IN  IF Len(digits) = 0 \/ \E i \in 1..Len(digits) : ~IsDigit(digits[i])
        THEN <<>>
        ELSE IF signed /\ s[1] = Byte.minus
             THEN << 0 - DigitsValue(digits) >>
             ELSE << DigitsValue(digits) >>

\* fmt.Sprintf("%d", n)
RECURSIVE FormatNat(_)
FormatNat(n) ==
    IF n < 10 THEN << 48 + n >>
    ELSE FormatNat(n \div 10) \o << 48 + (n % 10) >>

FormatInt(n) == IF n < 0 THEN <<Byte.minus>> \o FormatNat(0 - n) ELSE FormatNat(n)

\* fmt.Sprintf("page_%d", endIndex)
FormatPageToken(endIndex) == PagePrefix \o FormatInt(endIndex)


(***************************************************************************)
(* The catalog: model.Service and model.ServiceVersion records.            *)
(***************************************************************************)
\* ids of the services of the store, in load order
SvcIds == <<"svc-1", "svc-2", "svc-3", "svc-4", "svc-5", "svc-6",
           "svc-7", "svc-8", "svc-9", "svc-10", "svc-11", "svc-12">>

\* the records the loaded document is made of (everything but the id).
\* They share names only through repetition, differ in letter case, in
\* organization, and are ordered differently by created_at and updated_at.
ServiceBodies == <<
    [Name |-> <<Byte.A, Byte.b>>, Description |-> <<Byte.b, Byte.sp, Byte.a, Byte.sp, Byte.b>>,
     OrganizationID |-> "org-1", URL |-> "https://a", CreatedAt |-> 2, UpdatedAt |-> 3,
     Versions |-> << [ID |-> "v1", Version |-> "v1.0.0", IsActive |-> FALSE, Created |-> 2],
                     [ID |-> "v2", Version |-> "v1.1.0", IsActive |-> TRUE, Created |-> 3] >>],
    [Name |-> <<Byte.a, Byte.b>>, Description |-> <<>>,
     OrganizationID |-> "org-2", URL |-> "https://b", CreatedAt |-> 1, UpdatedAt |-> 4,
     Versions |-> << [ID |-> "v1", Version |-> "v2.0.0", IsActive |-> TRUE, Created |-> 1] >>],
    [Name |-> <<Byte.b>>, Description |-> <<Byte.A>>,
     OrganizationID |-> "org-1", URL |-> "https://c", CreatedAt |-> 1, UpdatedAt |-> 3,
     Versions |-> << >>] >>

\* a model.Service with its model.ServiceVersion list
MakeService(id, b) ==
    [ID |-> id, Name |-> b.Name, Description |-> b.Description,
     OrganizationID |-> b.OrganizationID, URL |-> b.URL,
     CreatedAt |-> b.CreatedAt, UpdatedAt |-> b.UpdatedAt,
     Versions |-> [i \in 1..Len(b.Versions) |->
         [ID |-> b.Versions[i].ID, Version |-> b.Versions[i].Version,
          ServiceID |-> id, Description |-> "release",
          IsActive |-> b.Versions[i].IsActive,
          CreatedAt |-> b.Versions[i].Created, UpdatedAt |-> b.Versions[i].Created]]]

\* the lists Store.ListServices() can hold at construction: up to MaxServices
\* records (listing the bodies in non-decreasing order leaves out only
\* renamings of the ids)
LoadedLists ==
    UNION { { [i \in 1..n |-> MakeService(SvcIds[i], ServiceBodies[f[i]])] :
                f \in { g \in [1..n -> 1..Len(ServiceBodies)] :
                          \A i \in 1..n : \A j \in 1..n : i <= j => g[i] <= g[j] } } :
            n \in 0..MaxServices }

\* a document of more services than one default page holds: DefaultPageSize + 1
\* services with pairwise different names and timestamps
LargeList ==
    [i \in 1..(DefaultPageSize + 1) |->
        MakeService(SvcIds[i],
            [Name |-> <<Byte.a + (i % 4), Byte.a + i>>,
             Description |-> IF i % 3 = 0 THEN <<Byte.A, Byte.b>> ELSE <<Byte.x>>,
             OrganizationID |-> IF i % 2 = 0 THEN "org-1" ELSE "org-2",
             URL |-> "https://l", CreatedAt |-> i, UpdatedAt |-> 2 * DefaultPageSize - i,
             Versions |-> <<>>])]

\* NewCatalogService keeping the first service of an id instead of the last
RECURSIVE NewCatalogService_firstWins(_)
NewCatalogService_firstWins(store) ==
    IF store = <<>> THEN [id \in {} |-> <<>>]
    ELSE LET m == NewCatalogService_firstWins(SubSeq(store, 1, Len(store) - 1))
             s == store[Len(store)]
         IN  [id \in (DOMAIN m) \cup {s.ID} |-> IF id \in DOMAIN m THEN m[id] ELSE s]

\* NewCatalogService: data[s.ID] = s for each service of the list, in order
RECURSIVE NewCatalogService(_)
NewCatalogService(store) ==
    IF store = <<>> THEN [id \in {} |-> <<>>]
    ELSE LET m == NewCatalogService(SubSeq(store, 1, Len(store) - 1))
             s == store[Len(store)]
         IN  [id \in (DOMAIN m) \cup {s.ID} |-> IF id = s.ID THEN s ELSE m[id]]

(***************************************************************************)
(* Requests, responses and errors.                                         *)
(***************************************************************************)
NoReq == [op |-> "none", PageSize |-> 0, PageToken |-> <<>>, OrganizationId |-> "",
          SearchQuery |-> <<>>, SortBy |-> "", SortOrder |-> "", Id |-> "", Nil |-> FALSE,
          CtxErr |-> ""]

\* a nil request pointer: the generated getters return the zero value of every field
NilReq(op) == [NoReq EXCEPT !.op = op, !.Nil = TRUE]

ListReq(ps, tok, org, q, sb, so) ==
    [op |-> "ListServices", PageSize |-> ps, PageToken |-> tok, OrganizationId |-> org,
     SearchQuery |-> q, SortBy |-> sb, SortOrder |-> so, Id |-> "", Nil |-> FALSE,
     CtxErr |-> ""]

GetReq(op, id) == [NoReq EXCEPT !.op = op, !.Id = id]

\* status.Errorf(code, format, args...): the code, the format, and its
\* integer and string arguments
Errorf(code, format, nums, strs) ==
    [code |-> code, format |-> format, nums |-> nums, strs |-> strs]

\* status.Error(code, msg)
StatusError(code, msg) == Errorf(code, msg, <<>>, <<>>)

\* a (response, error) pair: each is <<>> for nil and a one-element sequence otherwise
Failed(err) == [res |-> <<>>, err |-> <<err>>]
Returned(res) == [res |-> <<res>>, err |-> <<>>]
NoResp == [res |-> <<>>, err |-> <<>>]

NoLoc == [all |-> <<>>, filtered |-> <<>>, sorted |-> <<>>, pageSize |-> 0, startIndex |-> <<>>]

(***************************************************************************)
(* Wire conversion.                                                        *)
(***************************************************************************)
\* timestamppb.New
TimestampNew(t) == [Seconds |-> t, Nanos |-> 0]

\* convertVersionsToProto keeping only the active versions
convertVersionsToProto_activeOnly(versions) ==
    LET active == SelectSeq(versions, LAMBDA v : v.IsActive)
    IN  [i \in 1..Len(active) |->
            [Id |-> active[i].ID, Version |-> active[i].Version,
             ServiceId |-> active[i].ServiceID, Description |-> active[i].Description,
             IsActive |-> active[i].IsActive,
             CreatedAt |-> TimestampNew(active[i].CreatedAt),
             UpdatedAt |-> TimestampNew(active[i].UpdatedAt)]]

convertVersionsToProto(versions) ==
    [i \in 1..Len(versions) |->
        [Id |-> versions[i].ID, Version |-> versions[i].Version,
         ServiceId |-> versions[i].ServiceID, Description |-> versions[i].Description,
         IsActive |-> versions[i].IsActive,
         CreatedAt |-> TimestampNew(versions[i].CreatedAt),
         UpdatedAt |-> TimestampNew(versions[i].UpdatedAt)]]

convertToProtoService(s) ==
    [Id |-> s.ID, Name |-> s.Name, Description |-> s.Description,
     OrganizationId |-> s.OrganizationID, Url |-> s.URL,
     CreatedAt |-> TimestampNew(s.CreatedAt), UpdatedAt |-> TimestampNew(s.UpdatedAt),
     Versions |-> convertVersionsToProto(s.Versions)]


(***************************************************************************)
(* The query engine.  A slice of *model.Service is a sequence of ids: each *)
(* element points at the record data[id] of the store.                     *)
(***************************************************************************)
\* validateListServicesRequest with the upper bound excluded
validateListServicesRequest_excl(r) ==
    IF r.PageSize < 0 \/ r.PageSize >= MaxPageSize
    THEN << Errorf("InvalidArgument", "%v: page_size must be between 0 and %d, got %d",
                   <<MaxPageSize, r.PageSize>>, <<ErrInvalidRequest>>) >>
    ELSE <<>>

validateListServicesRequest(r) ==
    IF r.PageSize < 0 \/ r.PageSize > MaxPageSize
    THEN << Errorf("InvalidArgument", "%v: page_size must be between 0 and %d, got %d",
                   <<MaxPageSize, r.PageSize>>, <<ErrInvalidRequest>>) >>
    ELSE <<>>

\* validateGetServiceRequest accepting every request
validateGetServiceRequest_lenient(r) == <<>>

validateGetServiceRequest(r) ==
    IF r.Id = ""
    THEN << Errorf("InvalidArgument", "%v: service ID is required", <<>>, <<ErrInvalidRequest>>) >>
    ELSE <<>>

validateGetServiceVersionsRequest(r) ==
    IF r.Id = ""
    THEN << Errorf("InvalidArgument", "%v: service ID is required", <<>>, <<ErrInvalidRequest>>) >>
    ELSE <<>>

(***************************************************************************)
(* The extended validators.  The package's tests exercise a stricter       *)
(* variant of the three validators and a helper isValidID; they are        *)
(* written here from the specification and those tests.                    *)
(***************************************************************************)
MaxSearchQueryLength == 100
MaxIDLength == 50

\* the characters of an identifier: letters, digits, hyphen and underscore
IDChars ==
    {"a", "b", "c", "d", "e", "f", "g", "h", "i", "j", "k", "l", "m",
     "n", "o", "p", "q", "r", "s", "t", "u", "v", "w", "x", "y", "z",
     "A", "B", "C", "D", "E", "F", "G", "H", "I", "J", "K", "L", "M",
     "N", "O", "P", "Q", "R", "S", "T", "U", "V", "W", "X", "Y", "Z",
     "0", "1", "2", "3", "4", "5", "6", "7", "8", "9", "-", "_"}

isValidID(id) ==
    /\ Len(id) > 0
    /\ Len(id) <= MaxIDLength
    /\ \A i \in 1..Len(id) : SubSeq(id, i, i) \in IDChars

\* the extended list validator without the nil check
validateListServicesRequestExtended_noNil(r) ==
    IF r.PageSize < 0 \/ r.PageSize > MaxPageSize
    THEN << Errorf("InvalidArgument", "%v: page_size must be between 0 and %d, got %d",
                   <<MaxPageSize, r.PageSize>>, <<ErrInvalidRequest>>) >>
    ELSE IF Len(r.SearchQuery) > MaxSearchQueryLength
    THEN << Errorf("InvalidArgument", "%v: search_query too long", <<>>, <<ErrInvalidRequest>>) >>
    ELSE IF r.OrganizationId # "" /\ ~isValidID(r.OrganizationId)
    THEN << Errorf("InvalidArgument", "%v: invalid organization_id format", <<>>, <<ErrInvalidRequest>>) >>
    ELSE <<>>

\* the extended list validator refusing a query of MaxSearchQueryLength characters too
validateListServicesRequestExtended_excl(r) ==
    IF r.Nil
    THEN << Errorf("InvalidArgument", "%v: request cannot be nil", <<>>, <<ErrInvalidRequest>>) >>
    ELSE IF r.PageSize < 0 \/ r.PageSize > MaxPageSize
    THEN << Errorf("InvalidArgument", "%v: page_size must be between 0 and %d, got %d",
                   <<MaxPageSize, r.PageSize>>, <<ErrInvalidRequest>>) >>
    ELSE IF Len(r.SearchQuery) >= MaxSearchQueryLength
    THEN << Errorf("InvalidArgument", "%v: search_query too long", <<>>, <<ErrInvalidRequest>>) >>
    ELSE IF r.OrganizationId # "" /\ ~isValidID(r.OrganizationId)
    THEN << Errorf("InvalidArgument", "%v: invalid organization_id format", <<>>, <<ErrInvalidRequest>>) >>
    ELSE <<>>

validateListServicesRequestExtended(r) ==
    IF r.Nil
    THEN << Errorf("InvalidArgument", "%v: request cannot be nil", <<>>, <<ErrInvalidRequest>>) >>
    ELSE IF r.PageSize < 0 \/ r.PageSize > MaxPageSize
    THEN << Errorf("InvalidArgument", "%v: page_size must be between 0 and %d, got %d",
                   <<MaxPageSize, r.PageSize>>, <<ErrInvalidRequest>>) >>
    ELSE IF Len(r.SearchQuery) > MaxSearchQueryLength
    THEN << Errorf("InvalidArgument", "%v: search_query too long", <<>>, <<ErrInvalidRequest>>) >>
    ELSE IF r.OrganizationId # "" /\ ~isValidID(r.OrganizationId)
    THEN << Errorf("InvalidArgument", "%v: invalid organization_id format", <<>>, <<ErrInvalidRequest>>) >>
    ELSE <<>>

\* the extended get validator without the format check
validateGetServiceRequestExtended_noFormat(r) ==
    IF r.Nil
    THEN << Errorf("InvalidArgument", "%v: request cannot be nil", <<>>, <<ErrInvalidRequest>>) >>
    ELSE IF r.Id = ""
    THEN << Errorf("InvalidArgument", "%v: service ID is required", <<>>, <<ErrInvalidRequest>>) >>
    ELSE <<>>

validateGetServiceRequestExtended(r) ==
    IF r.Nil
    THEN << Errorf("InvalidArgument", "%v: request cannot be nil", <<>>, <<ErrInvalidRequest>>) >>
    ELSE IF r.Id = ""
    THEN << Errorf("InvalidArgument", "%v: service ID is required", <<>>, <<ErrInvalidRequest>>) >>
    ELSE IF ~isValidID(r.Id)
    THEN << Errorf("InvalidArgument", "%v: invalid service ID format", <<>>, <<ErrInvalidRequest>>) >>
    ELSE <<>>

validateGetServiceVersionsRequestExtended(r) ==
    IF r.Nil
    THEN << Errorf("InvalidArgument", "%v: request cannot be nil", <<>>, <<ErrInvalidRequest>>) >>
    ELSE IF r.Id = ""
    THEN << Errorf("InvalidArgument", "%v: service ID is required", <<>>, <<ErrInvalidRequest>>) >>
    ELSE IF ~isValidID(r.Id)
    THEN << Errorf("InvalidArgument", "%v: invalid service ID format", <<>>, <<ErrInvalidRequest>>) >>
    ELSE <<>>

\* the orders in which a range over the map c.data can enumerate its entries:
\* Go leaves the iteration order of a map unspecified, and it varies from one
\* range statement to the next
\* (every order for a map of up to MaxServices entries; for the larger map,
\* whose sort keys are pairwise different, the rotations of the load order and
\* their reverses)
MapRangeOrders(m) ==
    LET n == Cardinality(DOMAIN m)
    IN  IF n <= MaxServices
        THEN { o \in [1..n -> DOMAIN m] :
                 \A i \in DOMAIN o : \A j \in DOMAIN o : o[i] = o[j] => i = j }
        ELSE UNION { { [i \in 1..n |-> SvcIds[((i + k) % n) + 1]],
                       [i \in 1..n |-> SvcIds[((k + n - i) % n) + 1]] } : k \in 0..(n - 1) }

\* getAllServices: the entries of c.data appended in the order the range yields them
getAllServices(order) == order

\* getPageSize without the default
getPageSize_noDefault(requestedPageSize) == requestedPageSize

getPageSize(requestedPageSize) ==
    IF requestedPageSize = 0 THEN DefaultPageSize ELSE requestedPageSize

\* getStartIndex with the bound check off by one (offset > totalCount)
getStartIndex_offByOne(pageToken, pageSize, totalCount) ==
    IF pageToken = <<>> THEN [idx |-> 0, err |-> <<>>]
    ELSE IF ~HasPrefix(pageToken, PagePrefix)
    THEN [idx |-> 0, err |-> << Errorf("InvalidArgument", "%v: invalid page token format", <<>>, <<ErrInvalidRequest>>) >>]
    ELSE LET offset == Atoi(TrimPrefix(pageToken, PagePrefix))
         IN  IF offset = <<>>
             THEN [idx |-> 0, err |-> << Errorf("InvalidArgument", "%v: invalid page token: %v", <<>>, <<ErrInvalidRequest, "invalid syntax">>) >>]
             ELSE IF offset[1] < 0 \/ offset[1] > totalCount
             THEN [idx |-> 0, err |-> << Errorf("InvalidArgument", "%v: page token out of range", <<>>, <<ErrInvalidRequest>>) >>]
             ELSE [idx |-> offset[1], err |-> <<>>]

\* getStartIndex: [idx, err]
getStartIndex(pageToken, pageSize, totalCount) ==
    IF pageToken = <<>> THEN [idx |-> 0, err |-> <<>>]
    ELSE IF ~HasPrefix(pageToken, PagePrefix)
    THEN [idx |-> 0, err |-> << Errorf("InvalidArgument", "%v: invalid page token format", <<>>, <<ErrInvalidRequest>>) >>]
    ELSE LET offset == Atoi(TrimPrefix(pageToken, PagePrefix))
         IN  IF offset = <<>>
             THEN [idx |-> 0, err |-> << Errorf("InvalidArgument", "%v: invalid page token: %v", <<>>, <<ErrInvalidRequest, "invalid syntax">>) >>]
             ELSE IF offset[1] < 0 \/ offset[1] >= totalCount
             THEN [idx |-> 0, err |-> << Errorf("InvalidArgument", "%v: page token out of range", <<>>, <<ErrInvalidRequest>>) >>]
             ELSE [idx |-> offset[1], err |-> <<>>]

\* paginateServices issuing a next token also when the page ends the slice
\* (endIndex <= totalCount)
paginateServices_tokenAtEnd(services, startIndex, pageSize) ==
    LET totalCount == Len(services)
    IN  IF startIndex >= totalCount
        THEN Returned([Services |-> <<>>, NextPageToken |-> <<>>, TotalCount |-> totalCount])
        ELSE LET endIndex == IF startIndex + pageSize > totalCount
                             THEN totalCount ELSE startIndex + pageSize
                 page == SubSeq(services, startIndex + 1, endIndex)
             IN  Returned([Services |-> [i \in 1..Len(page) |-> convertToProtoService(data[page[i]])],
                           NextPageToken |-> IF endIndex <= totalCount
                                             THEN FormatPageToken(endIndex) ELSE <<>>,
                           TotalCount |-> totalCount])

\* paginateServices counting the services of the empty page as the total
paginateServices_emptyTotal(services, startIndex, pageSize) ==
    LET totalCount == Len(services)
    IN  IF startIndex >= totalCount
        THEN Returned([Services |-> <<>>, NextPageToken |-> <<>>, TotalCount |-> 0])
        ELSE LET endIndex == IF startIndex + pageSize > totalCount
                             THEN totalCount ELSE startIndex + pageSize
                 page == SubSeq(services, startIndex + 1, endIndex)
             IN  Returned([Services |-> [i \in 1..Len(page) |-> convertToProtoService(data[page[i]])],
                           NextPageToken |-> IF endIndex < totalCount
                                             THEN FormatPageToken(endIndex) ELSE <<>>,
                           TotalCount |-> totalCount])

\* paginateServices reporting the length of the page as the total
paginateServices_pageCount(services, startIndex, pageSize) ==
    LET totalCount == Len(services)
    IN  IF startIndex >= totalCount
        THEN Returned([Services |-> <<>>, NextPageToken |-> <<>>, TotalCount |-> totalCount])
        ELSE LET endIndex == IF startIndex + pageSize > totalCount
                             THEN totalCount ELSE startIndex + pageSize
                 page == SubSeq(services, startIndex + 1, endIndex)
             IN  Returned([Services |-> [i \in 1..Len(page) |-> convertToProtoService(data[page[i]])],
                           NextPageToken |-> IF endIndex < totalCount
                                             THEN FormatPageToken(endIndex) ELSE <<>>,
                           TotalCount |-> Len(page)])

\* paginateServices handing out the start of the page as the next token
paginateServices_sameOffset(services, startIndex, pageSize) ==
    LET totalCount == Len(services)
    IN  IF startIndex >= totalCount
        THEN Returned([Services |-> <<>>, NextPageToken |-> <<>>, TotalCount |-> totalCount])
        ELSE LET endIndex == IF startIndex + pageSize > totalCount
                             THEN totalCount ELSE startIndex + pageSize
                 page == SubSeq(services, startIndex + 1, endIndex)
             IN  Returned([Services |-> [i \in 1..Len(page) |-> convertToProtoService(data[page[i]])],
                           NextPageToken |-> IF endIndex < totalCount
                                             THEN FormatPageToken(startIndex) ELSE <<>>,
                           TotalCount |-> totalCount])

\* paginateServices (indices are Go's, zero-based)
paginateServices(services, startIndex, pageSize) ==
    LET totalCount == Len(services)
    IN  IF startIndex >= totalCount
        THEN Returned([Services |-> <<>>, NextPageToken |-> <<>>, TotalCount |-> totalCount])
        ELSE LET endIndex == IF startIndex + pageSize > totalCount
                             THEN totalCount ELSE startIndex + pageSize
                 page == SubSeq(services, startIndex + 1, endIndex)
             IN  Returned([Services |-> [i \in 1..Len(page) |-> convertToProtoService(data[page[i]])],
                           NextPageToken |-> IF endIndex < totalCount
                                             THEN FormatPageToken(endIndex) ELSE <<>>,
                           TotalCount |-> totalCount])

\* filterServices comparing the query as typed (not lowercased)
RECURSIVE filterServices_caseSensitive(_, _)
filterServices_caseSensitive(services, r) ==
    IF services = <<>> THEN <<>>
    ELSE LET s == data[Head(services)]
             rest == filterServices_caseSensitive(Tail(services), r)
             query == r.SearchQuery
             name == ToLower(s.Name)
             description == ToLower(s.Description)
         IN  IF r.OrganizationId # "" /\ s.OrganizationID # r.OrganizationId THEN rest
             ELSE IF r.SearchQuery # <<>> /\ ~Contains(name, query) /\ ~Contains(description, query)
             THEN rest
             ELSE <<Head(services)>> \o rest

\* filterServices: one pass over the slice, in order
RECURSIVE filterServices(_, _)
filterServices(services, r) ==
    IF services = <<>> THEN <<>>
    ELSE LET s == data[Head(services)]
             rest == filterServices(Tail(services), r)
             query == ToLower(r.SearchQuery)
             name == ToLower(s.Name)
             description == ToLower(s.Description)
         IN  IF r.OrganizationId # "" /\ s.OrganizationID # r.OrganizationId THEN rest
             ELSE IF r.SearchQuery # <<>> /\ ~Contains(name, query) /\ ~Contains(description, query)
             THEN rest
             ELSE <<Head(services)>> \o rest

\* the less function without the inversion for "desc"
SortLess_noDesc(a, b, sortBy, sortOrder) ==
    CASE sortBy = "name" -> StrLess(data[a].Name, data[b].Name)
      [] sortBy = "created_at" -> data[a].CreatedAt < data[b].CreatedAt
      [] sortBy = "updated_at" -> data[a].UpdatedAt < data[b].UpdatedAt
      [] OTHER -> StrLess(data[a].Name, data[b].Name)

\* the less function handed to sort.Slice, on two elements of the slice
SortLess(a, b, sortBy, sortOrder) ==
    LET result == CASE sortBy = "name" -> StrLess(data[a].Name, data[b].Name)
                    [] sortBy = "created_at" -> data[a].CreatedAt < data[b].CreatedAt
                    [] sortBy = "updated_at" -> data[a].UpdatedAt < data[b].UpdatedAt
                    [] OTHER -> StrLess(data[a].Name, data[b].Name)
    IN  IF sortOrder = "desc" THEN ~result ELSE result

Swap(s, i, j) == [s EXCEPT ![i] = s[j], ![j] = s[i]]

\* the inner loop of the insertion sort: for j := i; j > a && less(j, j-1); j--
RECURSIVE InsertionInner(_, _, _, _)
InsertionInner(s, j, sortBy, sortOrder) ==
    IF j > 1 /\ SortLess(s[j], s[j - 1], sortBy, sortOrder)
    THEN InsertionInner(Swap(s, j, j - 1), j - 1, sortBy, sortOrder)
    ELSE s

\* sort.Slice (the pdqsort of the Go 1.24 toolchain the Dockerfile builds with)
\* sorts a slice of at most 12 elements by this insertion sort
RECURSIVE InsertionSort(_, _, _, _)
InsertionSort(s, i, sortBy, sortOrder) ==
    IF i > Len(s) THEN s
    ELSE InsertionSort(InsertionInner(s, i, sortBy, sortOrder), i + 1, sortBy, sortOrder)

\* sortServices falling back to created_at for an unknown field
sortServices_otherDefault(services, sortBy, sortOrder) ==
    LET sortBy1 == IF sortBy = "" THEN "name" ELSE sortBy
        sortOrder1 == IF sortOrder = "" THEN "asc" ELSE sortOrder
        sortBy2 == IF sortBy1 \notin validSortFields THEN "created_at" ELSE sortBy1
        sortOrder2 == IF sortOrder1 \notin validSortOrders THEN "asc" ELSE sortOrder1
    IN  InsertionSort(services, 2, sortBy2, sortOrder2)

\* sortServices: the defaults, then sort.Slice
sortServices(services, sortBy, sortOrder) ==
    LET sortBy1 == IF sortBy = "" THEN "name" ELSE sortBy
        sortOrder1 == IF sortOrder = "" THEN "asc" ELSE sortOrder
        sortBy2 == IF sortBy1 \notin validSortFields THEN "name" ELSE sortBy1
        sortOrder2 == IF sortOrder1 \notin validSortOrders THEN "asc" ELSE sortOrder1
    IN  InsertionSort(services, 2, sortBy2, sortOrder2)

getServiceByID(id) ==
    IF id \notin DOMAIN data
    THEN [svc |-> <<>>, err |-> << Errorf("NotFound", "%v: service with ID '%s' not found", <<>>, <<ErrServiceNotFound, id>>) >>]
    ELSE [svc |-> <<data[id]>>, err |-> <<>>]

\* ListServices deciding the page token before it filters: against the count
\* of all services
ListServicesBody_tokenBeforeFilter(r, order) ==
    LET all == getAllServices(order)
        pageSize == getPageSize(r.PageSize)
        start == getStartIndex(r.PageToken, pageSize, Len(all))
        filtered == filterServices(all, r)
        sorted == sortServices(filtered, r.SortBy, r.SortOrder)
    IN  [loc |-> [all |-> all, filtered |-> filtered, sorted |-> sorted, pageSize |-> pageSize,
                  startIndex |-> IF start.err = <<>> THEN <<start.idx>> ELSE <<>>],
         resp |-> IF start.err # <<>> THEN Failed(start.err[1])
                  ELSE paginateServices(sorted, start.idx, pageSize)]

\* ListServices past validation, with the order the map range produced:
\* the locals of the call and what it returns
ListServicesBody(r, order) ==
    LET all == getAllServices(order)
        filtered == filterServices(all, r)
        sorted == sortServices(filtered, r.SortBy, r.SortOrder)
        pageSize == getPageSize(r.PageSize)
        start == getStartIndex(r.PageToken, pageSize, Len(sorted))
    IN  [loc |-> [all |-> all, filtered |-> filtered, sorted |-> sorted, pageSize |-> pageSize,
                  startIndex |-> IF start.err = <<>> THEN <<start.idx>> ELSE <<>>],
         resp |-> IF start.err # <<>> THEN Failed(start.err[1])
                  ELSE paginateServices(sorted, start.idx, pageSize)]

\* the outcomes of ListServices(r): one per order of the map range, or the
\* validation error
ListServicesOutcomes(r) ==
    IF validateListServicesRequest(r) # <<>>
    THEN { [loc |-> NoLoc, resp |-> Failed(validateListServicesRequest(r)[1])] }
    ELSE { ListServicesBody(r, order) : order \in MapRangeOrders(data) }

GetServiceOutcome(r) ==
    IF validateGetServiceRequest(r) # <<>> THEN Failed(validateGetServiceRequest(r)[1])
    ELSE LET found == getServiceByID(r.Id)
         IN  IF found.err # <<>> THEN Failed(found.err[1])
             ELSE Returned([Service |-> convertToProtoService(found.svc[1])])

GetServiceVersionsOutcome(r) ==
    IF validateGetServiceVersionsRequest(r) # <<>>
    THEN Failed(validateGetServiceVersionsRequest(r)[1])
    ELSE LET found == getServiceByID(r.Id)
         IN  IF found.err # <<>> THEN Failed(found.err[1])
             ELSE Returned([Versions |-> convertVersionsToProto(found.svc[1].Versions)])

(***************************************************************************)
(* The gRPC server in front of the engine (package grpc, type Server).     *)
(* ctxErr is what ctx.Err() returns when the handler reads it: "" for nil. *)
(***************************************************************************)
\* Server.ListServices handing every request to the engine, whatever ctx.Err() is
ServerListServicesOutcomes_noCtxCheck(ctxErr, r) == ListServicesOutcomes(r)

ServerListServicesOutcomes(ctxErr, r) ==
    IF ctxErr # ""
    THEN { [loc |-> NoLoc, resp |-> Failed(StatusError("Canceled", "request cancelled"))] }
    ELSE ListServicesOutcomes(r)

ServerGetServiceOutcome(ctxErr, r) ==
    IF ctxErr # "" THEN Failed(StatusError("Canceled", "request cancelled"))
    ELSE GetServiceOutcome(r)

ServerGetServiceVersionsOutcome(ctxErr, r) ==
    IF ctxErr # "" THEN Failed(StatusError("Canceled", "request cancelled"))
    ELSE GetServiceVersionsOutcome(r)

\* the three operations with the extended validators in front of the engine
ListServicesExtendedOutcomes(r) ==
    IF validateListServicesRequestExtended(r) # <<>>
    THEN { [loc |-> NoLoc, resp |-> Failed(validateListServicesRequestExtended(r)[1])] }
    ELSE { ListServicesBody(r, order) : order \in MapRangeOrders(data) }

GetServiceExtendedOutcome(r) ==
    IF validateGetServiceRequestExtended(r) # <<>>
    THEN Failed(validateGetServiceRequestExtended(r)[1])
    ELSE LET found == getServiceByID(r.Id)
         IN  IF found.err # <<>> THEN Failed(found.err[1])
             ELSE Returned([Service |-> convertToProtoService(found.svc[1])])

GetServiceVersionsExtendedOutcome(r) ==
    IF validateGetServiceVersionsRequestExtended(r) # <<>>
    THEN Failed(validateGetServiceVersionsRequestExtended(r)[1])
    ELSE LET found == getServiceByID(r.Id)
         IN  IF found.err # <<>> THEN Failed(found.err[1])
             ELSE Returned([Versions |-> convertVersionsToProto(found.svc[1].Versions)])

(***************************************************************************)
(* The requests sent to the engine.                                        *)
(***************************************************************************)
PageSizes == {-1, 0, 1, 2, MaxPageSize, MaxPageSize + 1}

PageTokens ==
    {<<>>} \cup { FormatPageToken(k) : k \in ((-1)..1) \cup {DefaultPageSize} }
           \cup { PagePrefix \o <<Byte.x>>, PagePrefix \o <<Byte.plus, Byte.zero + 1>>,
                  <<Byte.x>> \o FormatInt(1) }

OrganizationIds == {"", "org-1"}

SearchQueries == { <<>>, <<Byte.A, Byte.B>>, <<Byte.sp, Byte.a, Byte.sp>> }

SortBys == {"", "name", "created_at", "updated_at", "rating"}

SortOrders == {"", "asc", "desc", "up"}

\* every page size and page token with every filter, in the default order
PagingRequests ==
    { ListReq(ps, tok, org, q, "", "") :
        ps \in PageSizes, tok \in PageTokens, org \in OrganizationIds, q \in SearchQueries }

\* every sort field and order with every filter, for the page sizes that page
\* through the result, from the start or from offset 1
SortingRequests ==
    { ListReq(ps, tok, org, q, sb, so) :
        ps \in {0, 1, 2}, tok \in {<<>>, FormatPageToken(1)}, org \in OrganizationIds,
        q \in SearchQueries, sb \in SortBys, so \in SortOrders }

ListRequests == PagingRequests \cup SortingRequests

RequestedIds == {"", "svc-1", "svc-2", "svc-99", "invalid@id"}

(***************************************************************************)
(* Concurrent callers.  The transport runs every request in a goroutine of *)
(* its own; the calls share the CatalogService and nothing else.           *)
(***************************************************************************)
Callers == {"c1", "c2"}

\* a caller that is not in a call
NoCall == [pc |-> "idle", req |-> NoReq, order |-> <<>>, services |-> <<>>, i |-> 0,
           resp |-> NoResp]

\* the parts of the process that the query engine does not touch, at rest
NoBoot == [phase |-> "constructed"]
NoAuth == [phase |-> "off"]
NoLogs == [phase |-> "off"]
NoSrv == [phase |-> "off"]

(***************************************************************************)
(* The state machine: a caller calls the engine and takes the result.      *)
(***************************************************************************)
Init ==
    /\ data \in { NewCatalogService(lst) : lst \in LoadedLists \cup {LargeList} }
    /\ req = NoReq
    /\ loc = NoLoc
    /\ resp = NoResp
    /\ pages = <<>>
    /\ chain = "none"
    /\ fetched = 0
    /\ calls = [p \in Callers |-> NoCall]
    /\ slices = << >>
    /\ boot = NoBoot
    /\ auth = NoAuth
    /\ logs = NoLogs
    /\ srv = NoSrv

\* the client's record of a list response
ChainAfter(r, out, before) ==
    IF out.resp.err # <<>> THEN "broken"
    ELSE IF out.resp.res[1].NextPageToken = <<>> THEN "complete" ELSE "open"

ListServices ==
    /\ req.op = "none"
    /\ \E r \in ListRequests :
        \E out \in ListServicesOutcomes(r) :
            /\ req' = r
            /\ loc' = out.loc
            /\ resp' = out.resp
            /\ IF r.PageToken = <<>> /\ out.resp.err = <<>>
               THEN /\ pages' = out.resp.res[1].Services
                    /\ chain' = ChainAfter(r, out, <<>>)
                    /\ fetched' = 1
               ELSE /\ pages' = <<>>
                    /\ chain' = "none"
                    /\ fetched' = 0
    /\ UNCHANGED <<boot, auth, logs, srv, calls, slices, data>>

FollowNextPage ==
    /\ req.op = "ListServices"
    /\ chain = "open"
    /\ LET r == [req EXCEPT !.PageToken = resp.res[1].NextPageToken]
       IN  \E out \in ListServicesOutcomes(r) :
            /\ req' = r
            /\ loc' = NoLoc
            /\ resp' = out.resp
            /\ chain' = ChainAfter(r, out, pages)
            /\ pages' = IF out.resp.err = <<>>
                        THEN pages \o out.resp.res[1].Services ELSE pages
            /\ fetched' = fetched + 1
    /\ UNCHANGED <<boot, auth, logs, srv, calls, slices, data>>

RepeatCall ==
    /\ req.op # "none"
    /\ \/ /\ req.op = "ListServices"
          /\ \E out \in ListServicesOutcomes(req) :
                /\ loc' = out.loc
                /\ resp' = out.resp
       \/ /\ req.op = "GetService"
          /\ resp' = GetServiceOutcome(req)
          /\ loc' = NoLoc
       \/ /\ req.op = "GetServiceVersions"
          /\ resp' = GetServiceVersionsOutcome(req)
          /\ loc' = NoLoc
    /\ pages' = <<>>
    /\ chain' = "none"
    /\ fetched' = 0
    /\ UNCHANGED <<boot, auth, logs, srv, calls, slices, data, req>>

GetService ==
    /\ req.op = "none"
    /\ \E id \in RequestedIds :
        /\ req' = GetReq("GetService", id)
        /\ resp' = GetServiceOutcome(GetReq("GetService", id))
    /\ UNCHANGED <<boot, auth, logs, srv, calls, slices, data, loc, pages, fetched, chain>>

\* GetServiceVersions ordering the stored version list newest first, in place,
\* before converting it
GetServiceVersions_sortsInPlace ==
    /\ req.op = "none"
    /\ \E id \in RequestedIds :
        /\ req' = GetReq("GetServiceVersions", id)
        /\ resp' = GetServiceVersionsOutcome(GetReq("GetServiceVersions", id))
        /\ data' = IF id \in DOMAIN data
                   THEN [data EXCEPT ![id].Versions =
                            [i \in 1..Len(@) |-> @[Len(@) + 1 - i]]]
                   ELSE data
    /\ UNCHANGED <<boot, auth, logs, srv, calls, slices, loc, pages, fetched, chain>>

GetServiceVersions ==
    /\ req.op = "none"
    /\ \E id \in RequestedIds :
        /\ req' = GetReq("GetServiceVersions", id)
        /\ resp' = GetServiceVersionsOutcome(GetReq("GetServiceVersions", id))
    /\ UNCHANGED <<boot, auth, logs, srv, calls, slices, data, loc, pages, fetched, chain>>

Return ==
    /\ req.op # "none"
    /\ req' = NoReq
    /\ loc' = NoLoc
    /\ resp' = NoResp
    /\ pages' = <<>>
    /\ chain' = "none"
    /\ fetched' = 0
    /\ UNCHANGED <<boot, auth, logs, srv, calls, slices, data>>

Next ==
    \/ ListServices
    \/ GetService
    \/ GetServiceVersions
    \/ Return

Spec == Init /\ [][Next]_vars

\* the same client, which may also repeat the call it made last
NextRepeat ==
    \/ ListServices
    \/ GetService
    \/ GetServiceVersions
    \/ RepeatCall
    \/ Return

SpecRepeat == Init /\ [][NextRepeat]_vars

\* a caller that pages through a listing: it sends a request with an empty
\* token and then the same request with each next_page_token it receives
\* (of the calls that follow a token only the response is recorded)
NextPaging ==
    \/ ListServices
    \/ FollowNextPage
    \/ Return

SpecPaging == Init /\ [][NextPaging]_vars

\* what ctx.Err() can return when a handler begins: nil, context.Canceled
\* or context.DeadlineExceeded
CtxErrs == {"", "context canceled", "context deadline exceeded"}

ServerListServices ==
    /\ req.op = "none"
    /\ \E ctxErr \in CtxErrs : \E r \in PagingRequests :
        \E out \in ServerListServicesOutcomes(ctxErr, r) :
            /\ req' = [r EXCEPT !.CtxErr = ctxErr]
            /\ loc' = out.loc
            /\ resp' = out.resp
    /\ UNCHANGED <<boot, auth, logs, srv, calls, slices, data, pages, fetched, chain>>

ServerGetService ==
    /\ req.op = "none"
    /\ \E ctxErr \in CtxErrs : \E id \in RequestedIds :
        /\ req' = [GetReq("GetService", id) EXCEPT !.CtxErr = ctxErr]
        /\ resp' = ServerGetServiceOutcome(ctxErr, GetReq("GetService", id))
    /\ UNCHANGED <<boot, auth, logs, srv, calls, slices, data, loc, pages, fetched, chain>>

ServerGetServiceVersions ==
    /\ req.op = "none"
    /\ \E ctxErr \in CtxErrs : \E id \in RequestedIds :
        /\ req' = [GetReq("GetServiceVersions", id) EXCEPT !.CtxErr = ctxErr]
        /\ resp' = ServerGetServiceVersionsOutcome(ctxErr, GetReq("GetServiceVersions", id))
    /\ UNCHANGED <<boot, auth, logs, srv, calls, slices, data, loc, pages, fetched, chain>>

\* the calls arrive through the gRPC server
NextServer ==
    \/ ServerListServices
    \/ ServerGetService
    \/ ServerGetServiceVersions
    \/ Return

SpecServer == Init /\ [][NextServer]_vars

\* the requests the tests of the extended validators send, and their neighbours:
\* queries of MaxSearchQueryLength and MaxSearchQueryLength + 1 characters,
\* identifiers of MaxIDLength and MaxIDLength + 1 characters or with a
\* character outside the identifier set, and nil requests
LongString(n) == [i \in 1..n |-> Byte.a]

ExtendedSearchQueries ==
    { <<>>, <<Byte.A, Byte.B>>, LongString(MaxSearchQueryLength),
      LongString(MaxSearchQueryLength + 1) }

ExtendedOrganizationIds ==
    { "", "org-1", "invalid@org", "org 1",
      "aaaaaaaaaaaaaaaaaaaaaaaaaaaaaaaaaaaaaaaaaaaaaaaaaaa" }

ExtendedListRequests ==
    { NilReq("ListServices") } \cup
    { ListReq(ps, tok, org, q, "", "") :
        ps \in {-1, 0, 2, MaxPageSize + 1}, tok \in {<<>>, FormatPageToken(1)},
        org \in ExtendedOrganizationIds, q \in ExtendedSearchQueries }

ExtendedIds ==
    { "", "svc-1", "svc-2", "svc-99", "svc_1", "SVC-1", "svc123",
      "invalid@id", "svc@1", "svc 1", "svc.1", "svc/1",
      "aaaaaaaaaaaaaaaaaaaaaaaaaaaaaaaaaaaaaaaaaaaaaaaaaa",
      "aaaaaaaaaaaaaaaaaaaaaaaaaaaaaaaaaaaaaaaaaaaaaaaaaaa" }

ListServicesExtended ==
    /\ req.op = "none"
    /\ \E r \in ExtendedListRequests :
        \E out \in ListServicesExtendedOutcomes(r) :
            /\ req' = r
            /\ loc' = out.loc
            /\ resp' = out.resp
    /\ UNCHANGED <<boot, auth, logs, srv, calls, slices, data, pages, fetched, chain>>

GetServiceExtended ==
    /\ req.op = "none"
    /\ \E r \in { NilReq("GetService") } \cup { GetReq("GetService", id) : id \in ExtendedIds } :
        /\ req' = r
        /\ resp' = GetServiceExtendedOutcome(r)
    /\ UNCHANGED <<boot, auth, logs, srv, calls, slices, data, loc, pages, fetched, chain>>

GetServiceVersionsExtended ==
    /\ req.op = "none"
    /\ \E r \in { NilReq("GetServiceVersions") } \cup
                 { GetReq("GetServiceVersions", id) : id \in ExtendedIds } :
        /\ req' = r
        /\ resp' = GetServiceVersionsExtendedOutcome(r)
    /\ UNCHANGED <<boot, auth, logs, srv, calls, slices, data, loc, pages, fetched, chain>>

NextExtended ==
    \/ ListServicesExtended
    \/ GetServiceExtended
    \/ GetServiceVersionsExtended
    \/ Return

SpecExtended == Init /\ [][NextExtended]_vars

\* the page sizes and start indices paginateServices is called with directly,
\* as the package's tests call it: also a start index past the end of the slice
DirectPageSizes == {1, 2, DefaultPageSize, MaxPageSize}

DirectStartIndices(services) == 0..(Len(services) + 1)

\* a direct call of paginateServices on a slice of the services of the store
paginateServicesCall ==
    /\ req.op = "none"
    /\ \E services \in MapRangeOrders(data) :
        \E startIndex \in DirectStartIndices(services) :
        \E pageSize \in DirectPageSizes :
            /\ req' = [NoReq EXCEPT !.op = "paginateServices"]
            /\ loc' = [NoLoc EXCEPT !.all = services, !.sorted = services,
                                    !.pageSize = pageSize, !.startIndex = <<startIndex>>]
            /\ resp' = paginateServices(services, startIndex, pageSize)
    /\ UNCHANGED <<boot, auth, logs, srv, calls, slices, data, pages, fetched, chain>>

\* the engine's operations and the direct calls of its pagination step
NextSteps ==
    \/ ListServices
    \/ paginateServicesCall
    \/ Return

SpecSteps == Init /\ [][NextSteps]_vars


(***************************************************************************)
(* The same operations step by step, for callers that run concurrently.    *)
(* A step is one call the operation makes (validate..., getAllServices,    *)
(* filterServices, sortServices, the pagination, getServiceByID); steps of *)
(* different callers interleave in every order.                            *)
(***************************************************************************)
\* the requests the concurrent callers send
ConcurrentRequests ==
    { ListReq(1, <<>>, "", <<>>, "name", "desc"),
      ListReq(2, FormatPageToken(1), "org-1", <<>>, "created_at", "asc"),
      ListReq(0, <<>>, "", <<Byte.A, Byte.B>>, "", ""),
      ListReq(MaxPageSize + 1, <<>>, "", <<>>, "", ""),
      GetReq("GetService", "svc-1"), GetReq("GetService", ""),
      GetReq("GetServiceVersions", "svc-1"), GetReq("GetServiceVersions", "svc-99") }

\* the address of a slice the caller p allocates at the allocation site kind
\* (the make of getAllServices, the var filtered of filterServices), were it
\* one buffer kept for all calls
NewSlice_shared(p, kind) == <<"shared", kind>>

\* the address of a slice the caller p allocates at the allocation site kind:
\* each call gets memory of its own
NewSlice(p, kind) == <<p, kind>>

\* the orders the ranges of the concurrent calls yield: the rotations of the
\* load order and their reverses (every order of a map of up to 3 entries)
ConcurrentRangeOrders(m) ==
    LET n == Cardinality(DOMAIN m)
    IN  IF n = 0 THEN { <<>> }
        ELSE UNION { { [i \in 1..n |-> SvcIds[((i + k) % n) + 1]],
                       [i \in 1..n |-> SvcIds[((k + n - i) % n) + 1]] } : k \in 0..(n - 1) }

\* the sort field and order the less function of sortServices compares by
sortFieldUsed(sortBy) ==
    LET sortBy1 == IF sortBy = "" THEN "name" ELSE sortBy
    IN  IF sortBy1 \notin validSortFields THEN "name" ELSE sortBy1

sortOrderUsed(sortOrder) ==
    LET sortOrder1 == IF sortOrder = "" THEN "asc" ELSE sortOrder
    IN  IF sortOrder1 \notin validSortOrders THEN "asc" ELSE sortOrder1

\* the heap after the slice at address a is written
Store(a, elems) == [b \in (DOMAIN slices) \cup {a} |-> IF b = a THEN elems ELSE slices[b]]

\* the elements of the slice the caller p holds
Held(p) == slices[calls[p].services[1]]

\* the caller p enters an operation with a request
CallBegin(p) ==
    /\ calls[p].pc = "idle"
    /\ \E r \in ConcurrentRequests :
        calls' = [calls EXCEPT ![p] = [NoCall EXCEPT !.pc = "validate", !.req = r]]
    /\ UNCHANGED <<boot, auth, logs, srv, data, req, loc, resp, pages, fetched, chain, slices>>

\* validateListServicesRequest, validateGetServiceRequest or
\* validateGetServiceVersionsRequest, and the return of its error
StepValidate(p) ==
    /\ calls[p].pc = "validate"
    /\ LET r == calls[p].req
           err == CASE r.op = "ListServices" -> validateListServicesRequest(r)
                    [] r.op = "GetService" -> validateGetServiceRequest(r)
                    [] r.op = "GetServiceVersions" -> validateGetServiceVersionsRequest(r)
       IN  calls' = [calls EXCEPT ![p] =
                IF err # <<>> THEN [@ EXCEPT !.pc = "done", !.resp = Failed(err[1])]
                ELSE [@ EXCEPT !.pc = IF r.op = "ListServices" THEN "getAll" ELSE "lookup"]]
    /\ UNCHANGED <<boot, auth, logs, srv, data, req, loc, resp, pages, fetched, chain, slices>>

\* services := c.getAllServices()
StepGetAll(p) ==
    /\ calls[p].pc = "getAll"
    /\ \E order \in ConcurrentRangeOrders(data) :
        /\ slices' = Store(NewSlice(p, "all"), getAllServices(order))
        /\ calls' = [calls EXCEPT ![p] = [@ EXCEPT !.pc = "filter", !.order = order,
                                                    !.services = << NewSlice(p, "all") >>]]
    /\ UNCHANGED <<boot, auth, logs, srv, data, req, loc, resp, pages, fetched, chain>>

\* services = c.filterServices(services, req)
StepFilter(p) ==
    /\ calls[p].pc = "filter"
    /\ \E filtered \in { filterServices(Held(p), calls[p].req) } :
            slices' = Store(NewSlice(p, "filtered"), filtered)
    /\ calls' = [calls EXCEPT ![p] = [@ EXCEPT !.pc = "sort", !.i = 2,
                                                !.services = << NewSlice(p, "filtered") >>]]
    /\ UNCHANGED <<boot, auth, logs, srv, data, req, loc, resp, pages, fetched, chain>>

\* c.sortServices(services, ...): the slice is sorted in place, one insertion
\* of the sort at a step (the element at index i is moved down to its place);
\* the sort returns when i has passed the last element
StepSort(p) ==
    /\ calls[p].pc = "sort"
    /\ \E s \in { Held(p) } :
        IF calls[p].i > Len(s)
        THEN /\ calls' = [calls EXCEPT ![p] = [@ EXCEPT !.pc = "paginate", !.i = 0]]
             /\ UNCHANGED slices
        ELSE /\ slices' = Store(calls[p].services[1],
                                InsertionInner(s, calls[p].i, sortFieldUsed(calls[p].req.SortBy),
                                               sortOrderUsed(calls[p].req.SortOrder)))
             /\ calls' = [calls EXCEPT ![p] =
                    IF calls[p].i + 1 > Len(s) THEN [@ EXCEPT !.pc = "paginate", !.i = 0]
                    ELSE [@ EXCEPT !.i = @ + 1]]
    /\ UNCHANGED <<boot, auth, logs, srv, data, req, loc, resp, pages, fetched, chain>>

\* getPageSize, getStartIndex and paginateServices, and the return
StepPaginate(p) ==
    /\ calls[p].pc = "paginate"
    /\ \E services \in { Held(p) } :
       \E pageSize \in { getPageSize(calls[p].req.PageSize) } :
       \E start \in { getStartIndex(calls[p].req.PageToken, pageSize, Len(services)) } :
       \E result \in { IF start.err # <<>> THEN Failed(start.err[1])
                       ELSE paginateServices(services, start.idx, pageSize) } :
            calls' = [calls EXCEPT ![p] = [@ EXCEPT !.pc = "done", !.resp = result]]
    /\ UNCHANGED <<boot, auth, logs, srv, data, req, loc, resp, pages, fetched, chain, slices>>

\* getServiceByID and the conversion of what it found, and the return
StepLookup(p) ==
    /\ calls[p].pc = "lookup"
    /\ \E found \in { getServiceByID(calls[p].req.Id) } :
       \E result \in { IF found.err # <<>> THEN Failed(found.err[1])
                       ELSE IF calls[p].req.op = "GetService"
                       THEN Returned([Service |-> convertToProtoService(found.svc[1])])
                       ELSE Returned([Versions |-> convertVersionsToProto(found.svc[1].Versions)]) } :
            calls' = [calls EXCEPT ![p] = [@ EXCEPT !.pc = "done", !.resp = result]]
    /\ UNCHANGED <<boot, auth, logs, srv, data, req, loc, resp, pages, fetched, chain, slices>>

\* the caller has taken the result; the slices no call holds any more are
\* garbage and are collected
CallReturn(p) ==
    /\ calls[p].pc = "done"
    /\ calls' = [calls EXCEPT ![p] = NoCall]
    /\ slices' = [a \in { b \in DOMAIN slices :
                             \E q \in Callers \ {p} : calls[q].services = <<b>> }
                    |-> slices[a]]
    /\ UNCHANGED <<boot, auth, logs, srv, data, req, loc, resp, pages, fetched, chain>>

\* the next step of the call of caller p
CallStep(p) ==
    \/ StepValidate(p)
    \/ StepGetAll(p)
    \/ StepFilter(p)
    \/ StepSort(p)
    \/ StepPaginate(p)
    \/ StepLookup(p)
    \/ CallReturn(p)

NextConcurrent ==
    \/ \E p \in Callers : CallBegin(p)
    \/ \E p \in Callers : StepValidate(p)
    \/ \E p \in Callers : StepGetAll(p)
    \/ \E p \in Callers : StepFilter(p)
    \/ \E p \in Callers : StepSort(p)
    \/ \E p \in Callers : StepPaginate(p)
    \/ \E p \in Callers : StepLookup(p)
    \/ \E p \in Callers : CallReturn(p)

\* the concurrent callers work on the stores of up to MaxServices services
InitConcurrent == Init /\ Cardinality(DOMAIN data) <= MaxServices

SpecConcurrent == InitConcurrent /\ [][NextConcurrent]_vars

(***************************************************************************)
(* Loading the catalog.  App.initGRPCServer reads the services document    *)
(* and NewCatalogServerFromYAML parses it into the store; main exits when  *)
(* the application cannot start.                                           *)
(***************************************************************************)
\* a created_at / updated_at scalar of the document: a date-time, or other text
DateTime(t) == [text |-> "date-time", t |-> t]
NotADate == [text |-> "invalid-date", t |-> 0]

\* decoding the scalar into a time.Time: <<t>>, or <<>> when it cannot be parsed
ParseTime(x) == IF x.text = "date-time" THEN <<x.t>> ELSE <<>>

\* the service entries a document can hold: ids repeat, and either timestamp
\* may be text that is no date-time
DocIds == {"svc-1", "svc-2"}

DocBodies == {1, 3}

DocRecords ==
    { [id |-> i, body |-> b,
       created_at |-> IF bad = "created_at" THEN NotADate
                      ELSE DateTime(ServiceBodies[b].CreatedAt),
       updated_at |-> IF bad = "updated_at" THEN NotADate
                      ELSE DateTime(ServiceBodies[b].UpdatedAt)] :
        i \in DocIds, b \in DocBodies, bad \in {"none", "created_at", "updated_at"} }

\* the documents read at start: text that is not YAML at all, or a list of
\* up to MaxServices service entries
Documents ==
    { [wellFormed |-> FALSE, services |-> <<>>] } \cup
    UNION { { [wellFormed |-> TRUE, services |-> recs] : recs \in [1..n -> DocRecords] } :
            n \in 0..MaxServices }

\* the model.Service an entry decodes to; a timestamp that was not decoded is
\* left at the zero time
DecodeService(rec) ==
    MakeService(rec.id,
        [ServiceBodies[rec.body] EXCEPT
            !.CreatedAt = IF ParseTime(rec.created_at) = <<>> THEN 0
                          ELSE ParseTime(rec.created_at)[1],
            !.UpdatedAt = IF ParseTime(rec.updated_at) = <<>> THEN 0
                          ELSE ParseTime(rec.updated_at)[1]])

\* the entries of the document that do not decode
Undecodable(doc) ==
    { i \in 1..Len(doc.services) :
        ParseTime(doc.services[i].created_at) = <<>> \/ ParseTime(doc.services[i].updated_at) = <<>> }

\* yaml.Unmarshal(yamlData, &sf): the error and what sf.Services holds
\* afterwards; after an error sf holds some of the entries
UnmarshalOutcomes(doc) ==
    IF ~doc.wellFormed
    THEN { [err |-> <<"yaml: did not find expected node content">>, Services |-> <<>>] }
    ELSE IF Undecodable(doc) # {}
    THEN { [err |-> <<"cannot parse">>,
            Services |-> [i \in 1..k |-> DecodeService(doc.services[i])]] :
              k \in 0..Len(doc.services) }
    ELSE { [err |-> <<>>,
            Services |-> [i \in 1..Len(doc.services) |-> DecodeService(doc.services[i])]] }

\* NewCatalogServerFromYAML serving whatever the decoder left in sf
NewCatalogServerFromYAML_servesPartial(doc) ==
    { [server |-> << NewCatalogService(u.Services) >>, err |-> <<>>] :
        u \in UnmarshalOutcomes(doc) }

\* NewCatalogServerFromYAML: (*Server, error); the server is the store it wraps
NewCatalogServerFromYAML(doc) ==
    { IF u.err # <<>>
      THEN [server |-> <<>>, err |-> << <<"failed to parse services.yaml: %w", u.err[1]>> >>]
      ELSE [server |-> << NewCatalogService(u.Services) >>, err |-> <<>>] :
        u \in UnmarshalOutcomes(doc) }

\* App.initGRPCServer: the catalog server is created from the document, or
\* the error is returned to Start and to main
initGRPCServer ==
    /\ boot.phase = "start"
    /\ \E out \in NewCatalogServerFromYAML(boot.doc) :
        IF out.err # <<>>
        THEN /\ boot' = [boot EXCEPT !.phase = "failed",
                                     !.err = << <<"failed to create catalog server: %w", out.err[1]>> >>]
             /\ UNCHANGED data
        ELSE /\ boot' = [boot EXCEPT !.phase = "serving"]
             /\ data' = out.server[1]
    /\ UNCHANGED <<req, loc, resp, pages, fetched, chain, calls, slices, auth, logs, srv>>

\* main: logger.Get().Fatalw("Failed to start application", ...) ends the process
StartFailed ==
    /\ boot.phase = "failed"
    /\ boot' = [boot EXCEPT !.phase = "exited"]
    /\ UNCHANGED <<data, req, loc, resp, pages, fetched, chain, calls, slices, auth, logs, srv>>

\* the requests sent to the registered server
LoadedListRequests ==
    { ListReq(0, <<>>, "", <<>>, "", ""), ListReq(1, <<>>, "org-1", <<>>, "name", "desc") }

LoadedIds == DocIds \cup {"svc-99"}

\* a ListServices call on the registered server
LoadedListServices ==
    /\ boot.phase = "serving"
    /\ req.op = "none"
    /\ \E r \in LoadedListRequests :
        \E out \in ListServicesOutcomes(r) :
            /\ req' = r
            /\ loc' = out.loc
            /\ resp' = out.resp
    /\ UNCHANGED <<data, pages, fetched, chain, calls, slices, boot, auth, logs, srv>>

\* a GetService call on the registered server
LoadedGetService ==
    /\ boot.phase = "serving"
    /\ req.op = "none"
    /\ \E id \in LoadedIds :
        /\ req' = GetReq("GetService", id)
        /\ resp' = GetServiceOutcome(GetReq("GetService", id))
    /\ UNCHANGED <<data, loc, pages, fetched, chain, calls, slices, boot, auth, logs, srv>>

NextLoad ==
    \/ initGRPCServer
    \/ StartFailed
    \/ LoadedListServices
    \/ LoadedGetService
    \/ Return

\* the process before the document is loaded: no catalog service exists
InitLoad ==
    /\ data = [id \in {} |-> <<>>]
    /\ req = NoReq
    /\ loc = NoLoc
    /\ resp = NoResp
    /\ pages = <<>>
    /\ chain = "none"
    /\ fetched = 0
    /\ calls = [p \in Callers |-> NoCall]
    /\ slices = << >>
    /\ \E doc \in Documents : boot = [phase |-> "start", doc |-> doc, err |-> <<>>]
    /\ auth = NoAuth
    /\ logs = NoLogs
    /\ srv = NoSrv

SpecLoad == InitLoad /\ [][NextLoad]_vars

(***************************************************************************)
(* Authentication: JWTManager and its tokens, the HTTP middleware, the     *)
(* gRPC interceptor and AuthHandler.Login.  Time is in whole seconds.      *)
(*                                                                         *)
(* A piece of text is a record: plain text, or the serialization of a      *)
(* signed token (its header's alg, its claims and its signature).  A       *)
(* header value or token string is a sequence of pieces.                   *)
(***************************************************************************)
Word(text) == [jwt |-> FALSE, text |-> text]
Space == Word(" ")

\* the HMAC of the signing string (header and claims) under the key
HMAC(key, alg, claims) == [key |-> key, signed |-> <<alg, claims>>]

\* NewJWTManager
NewJWTManager(secretKey, tokenDuration) ==
    [secretKey |-> secretKey, tokenDuration |-> tokenDuration]

\* GenerateToken at time now: the signed token (SignedString does not fail
\* for a byte-slice key)
GenerateToken(j, now, userID, email, organization, role) ==
    LET claims == [UserID |-> userID, Email |-> email, Organization |-> organization,
                   Role |-> role, ExpiresAt |-> now + j.tokenDuration, IssuedAt |-> now,
                   NotBefore |-> now, Issuer |-> "catalog-service", Subject |-> userID]
    IN  [jwt |-> TRUE, alg |-> "HS256", claims |-> claims,
         mac |-> HMAC(j.secretKey, "HS256", claims)]

\* the algorithms of *jwt.SigningMethodHMAC
HMACAlgs == {"HS256", "HS384", "HS512"}

InvalidToken(why) == [claims |-> <<>>, err |-> << <<"invalid token: %w", why>> >>]

\* ValidateToken without the check of the signing method and of the signature
ValidateToken_unverified(j, now, tokenString) ==
    IF Len(tokenString) # 1 \/ ~tokenString[1].jwt
    THEN InvalidToken("token is malformed")
    ELSE LET t == tokenString[1]
         IN  IF ~(now < t.claims.ExpiresAt) THEN InvalidToken("token is expired")
             ELSE IF now < t.claims.NotBefore THEN InvalidToken("token is not valid yet")
             ELSE [claims |-> << t.claims >>, err |-> <<>>]

\* ValidateToken at time now: (claims, error).  jwt.ParseWithClaims parses the
\* string, asks the key function (which refuses a method that is no HMAC),
\* verifies the signature and then the exp and nbf claims
ValidateToken(j, now, tokenString) ==
    IF Len(tokenString) # 1 \/ ~tokenString[1].jwt
    THEN InvalidToken("token is malformed")
    ELSE LET t == tokenString[1]
         IN  IF t.alg \notin HMACAlgs THEN InvalidToken("unexpected signing method")
             ELSE IF t.mac # HMAC(j.secretKey, t.alg, t.claims)
             THEN InvalidToken("signature is invalid")
             ELSE IF ~(now < t.claims.ExpiresAt) THEN InvalidToken("token is expired")
             ELSE IF now < t.claims.NotBefore THEN InvalidToken("token is not valid yet")
             ELSE [claims |-> << t.claims >>, err |-> <<>>]

\* strings.Split(s, " "): the runs of pieces between the spaces
RECURSIVE Split(_)
Split(s) ==
    IF \A i \in 1..Len(s) : s[i] # Space THEN << s >>
    ELSE LET i == CHOOSE k \in 1..Len(s) : s[k] = Space /\ \A m \in 1..(k - 1) : s[m] # Space
         IN  << SubSeq(s, 1, i - 1) >> \o Split(SubSeq(s, i + 1, Len(s)))

\* ExtractTokenFromHeader accepting any scheme word
ExtractTokenFromHeader_anyScheme(authHeader) ==
    IF authHeader = <<>> THEN [token |-> <<>>, err |-> <<"authorization header is required">>]
    ELSE LET parts == Split(authHeader)
         IN  IF Len(parts) # 2
             THEN [token |-> <<>>, err |-> <<"invalid authorization header format">>]
             ELSE [token |-> parts[2], err |-> <<>>]

\* ExtractTokenFromHeader: (token, error)
ExtractTokenFromHeader(authHeader) ==
    IF authHeader = <<>> THEN [token |-> <<>>, err |-> <<"authorization header is required">>]
    ELSE LET parts == Split(authHeader)
         IN  IF Len(parts) # 2 \/ parts[1] # << Word("Bearer") >>
             THEN [token |-> <<>>, err |-> <<"invalid authorization header format">>]
             ELSE [token |-> parts[2], err |-> <<>>]

\* the middleware's handler for request r: the status written, whether the
\* next handler was invoked (it answers 200), and the claims put in the context
HTTPMiddleware(j, now, r) ==
    IF r.Path = "/health" \/ r.Method = "OPTIONS"
    THEN [status |-> 200, next |-> TRUE, user |-> <<>>]
    ELSE LET tok == ExtractTokenFromHeader(r.Authorization)
         IN  IF tok.err # <<>> THEN [status |-> 401, next |-> FALSE, user |-> <<>>]
             ELSE LET v == ValidateToken(j, now, tok.token)
                  IN  IF v.err # <<>> THEN [status |-> 401, next |-> FALSE, user |-> <<>>]
                      ELSE [status |-> 200, next |-> TRUE, user |-> v.claims]

\* the interceptor for a call of fullMethod with incoming metadata md: whether
\* the handler was invoked, the error code, and the claims put in the context
GRPCUnaryInterceptor(j, now, fullMethod, md) ==
    IF fullMethod = "/grpc.health.v1.Health/Check"
    THEN [handler |-> TRUE, code |-> "OK", user |-> <<>>]
    ELSE IF ~md.present THEN [handler |-> FALSE, code |-> "Unauthenticated", user |-> <<>>]
    ELSE IF Len(md.authorization) = 0
    THEN [handler |-> FALSE, code |-> "Unauthenticated", user |-> <<>>]
    ELSE LET tok == ExtractTokenFromHeader(md.authorization[1])
         IN  IF tok.err # <<>>
             THEN [handler |-> FALSE, code |-> "Unauthenticated", user |-> <<>>]
             ELSE LET v == ValidateToken(j, now, tok.token)
                  IN  IF v.err # <<>>
                      THEN [handler |-> FALSE, code |-> "Unauthenticated", user |-> <<>>]
                      ELSE [handler |-> TRUE, code |-> "OK", user |-> v.claims]

\* the demo users of validateCredentials
demoUsers ==
    ("admin@org1.com" :> [Password |-> "admin123", Organization |-> "org-1", Role |-> "admin"]) @@
    ("user@org1.com" :> [Password |-> "user123", Organization |-> "org-1", Role |-> "user"]) @@
    ("admin@org2.com" :> [Password |-> "admin123", Organization |-> "org-2", Role |-> "admin"]) @@
    ("user@org2.com" :> [Password |-> "user123", Organization |-> "org-2", Role |-> "user"]) @@
    ("admin@org3.com" :> [Password |-> "admin123", Organization |-> "org-3", Role |-> "admin"]) @@
    ("user@org3.com" :> [Password |-> "user123", Organization |-> "org-3", Role |-> "user"])

ErrInvalidCredentials == "invalid credentials"

\* validateCredentials not comparing the organization
validateCredentials_anyOrganization(email, password, organization) ==
    IF email \notin DOMAIN demoUsers
    THEN [userID |-> "", role |-> "", err |-> <<ErrInvalidCredentials>>]
    ELSE IF demoUsers[email].Password # password
    THEN [userID |-> "", role |-> "", err |-> <<ErrInvalidCredentials>>]
    ELSE [userID |-> "user-" \o SubSeq(email, 1, Len(email) - 4),
          role |-> demoUsers[email].Role, err |-> <<>>]

\* validateCredentials: (userID, role, error)
validateCredentials(email, password, organization) ==
    IF email \notin DOMAIN demoUsers
    THEN [userID |-> "", role |-> "", err |-> <<ErrInvalidCredentials>>]
    ELSE IF demoUsers[email].Password # password \/ demoUsers[email].Organization # organization
    THEN [userID |-> "", role |-> "", err |-> <<ErrInvalidCredentials>>]
    ELSE [userID |-> "user-" \o SubSeq(email, 1, Len(email) - 4),
          role |-> demoUsers[email].Role, err |-> <<>>]

\* what Login writes: the status, and the LoginResponse when the status is 200
Refused(status) == [status |-> status, response |-> <<>>]

\* AuthHandler.Login for a request with the method and the body (which decodes
\* into a LoginRequest or does not)
Login(j, now, method, body) ==
    IF method # "POST" THEN Refused(405)
    ELSE IF ~body.decodes THEN Refused(400)
    ELSE IF body.Email = "" \/ body.Password = "" \/ body.Organization = "" THEN Refused(400)
    ELSE LET cred == validateCredentials(body.Email, body.Password, body.Organization)
         IN  IF cred.err # <<>> THEN Refused(401)
             ELSE [status |-> 200,
                   response |-> << [Token |-> GenerateToken(j, now, cred.userID, body.Email,
                                                           body.Organization, cred.role),
                                    ExpiresAt |-> now + j.tokenDuration,
                                    UserID |-> cred.userID, Email |-> body.Email,
                                    Organization |-> body.Organization,
                                    Role |-> cred.role] >>]

\* the token durations the manager is configured with, in seconds
TokenDurations == {2}

\* no request handled since the clock last moved
NoLast == [op |-> "none"]

\* the tokens the client keeps: the one it was issued last
Keep(tokens, issued) == {issued}

\* the token strings a client presents: the tokens it was issued, each of
\* them with the algorithm set to none or with the role claim rewritten, a
\* token another key signed, the empty string and text that is no token
TokenStrings ==
    { << i.token >> : i \in auth.tokens }
    \cup { << [i.token EXCEPT !.alg = "none", !.mac = Word("")] >> : i \in auth.tokens }
    \cup { << [i.token EXCEPT !.claims.Role = "admin", !.claims.Organization = "org-3"] >> :
              i \in auth.tokens }
    \cup { << GenerateToken(NewJWTManager("another-key", auth.j.tokenDuration), auth.now,
                            "user-123", "test@example.com", "org-1", "admin") >>,
           << >>, << Word("invalid.token.format") >> }

\* the Authorization values built from a token string
HeadersOf(ts) ==
    { << Word("Bearer"), Space >> \o ts,
      << Word("bearer"), Space >> \o ts,
      << Word("Bearer"), Space, Space >> \o ts,
      << Word("Bearer"), Space >> \o ts \o << Space, Word("x") >>,
      ts }

Headers == { << >> } \cup UNION { HeadersOf(ts) : ts \in TokenStrings }

\* the clock advances
Tick ==
    /\ auth.phase = "on"
    /\ auth.now < MaxTime
    /\ auth' = [auth EXCEPT !.now = @ + 1, !.last = NoLast]
    /\ UNCHANGED <<data, req, loc, resp, pages, chain, fetched, calls, slices, boot, logs, srv>>

\* a call of GenerateToken; the client keeps the token with the values it gave
CallGenerateToken ==
    /\ auth.phase = "on"
    /\ \E userID \in {"", "user-123"} : \E role \in {"admin", "user"} :
        \E t \in { GenerateToken(auth.j, auth.now, userID, "test@example.com", "org-1", role) } :
            auth' = [auth EXCEPT
                        !.tokens = Keep(@, [token |-> t, at |-> auth.now,
                                            given |-> <<userID, "test@example.com", "org-1", role>>]),
                        !.last = [op |-> "GenerateToken", token |-> t]]
    /\ UNCHANGED <<data, req, loc, resp, pages, chain, fetched, calls, slices, boot, logs, srv>>

\* a call of ValidateToken
CallValidateToken ==
    /\ auth.phase = "on"
    /\ \E ts \in TokenStrings :
        auth' = [auth EXCEPT !.last = [op |-> "ValidateToken", tokenString |-> ts,
                                       result |-> ValidateToken(auth.j, auth.now, ts)]]
    /\ UNCHANGED <<data, req, loc, resp, pages, chain, fetched, calls, slices, boot, logs, srv>>

\* an HTTP request passes through the middleware
HTTPRequest ==
    /\ auth.phase = "on"
    /\ \E path \in {"/health", "/v1/services"} : \E method \in {"GET", "OPTIONS"} :
        \E h \in Headers :
            \E r \in { [Path |-> path, Method |-> method, Authorization |-> h] } :
                auth' = [auth EXCEPT !.last = [op |-> "HTTP", request |-> r,
                                               result |-> HTTPMiddleware(auth.j, auth.now, r)]]
    /\ UNCHANGED <<data, req, loc, resp, pages, chain, fetched, calls, slices, boot, logs, srv>>

\* the incoming metadata of a gRPC call: none, without an authorization key,
\* with one value, or with a value that is no Bearer header before another
Metadatas ==
    { [present |-> FALSE, authorization |-> << >>], [present |-> TRUE, authorization |-> << >>] }
    \cup { [present |-> TRUE, authorization |-> << h >>] : h \in Headers }
    \cup { [present |-> TRUE,
            authorization |-> << << Word("Basic"), Space, Word("abc") >>,
                                 << Word("Bearer"), Space >> \o ts >>] : ts \in TokenStrings }

\* a gRPC call passes through the interceptor
GRPCRequest ==
    /\ auth.phase = "on"
    /\ \E fullMethod \in {"/grpc.health.v1.Health/Check", "/catalog.v1.CatalogService/ListServices"} :
        \E md \in Metadatas :
            auth' = [auth EXCEPT !.last = [op |-> "gRPC", fullMethod |-> fullMethod, md |-> md,
                                           result |-> GRPCUnaryInterceptor(auth.j, auth.now,
                                                                           fullMethod, md)]]
    /\ UNCHANGED <<data, req, loc, resp, pages, chain, fetched, calls, slices, boot, logs, srv>>

\* the bodies posted to /auth/login: text that is no JSON object, or a LoginRequest
LoginBodies ==
    { [decodes |-> FALSE] } \cup
    { [decodes |-> TRUE, Email |-> e, Password |-> pw, Organization |-> o] :
        e \in {"", "admin@org1.com", "user@org2.com", "admin@org9.com"},
        pw \in {"", "admin123", "user123"}, o \in {"", "org-1", "org-2"} }

\* a request to /auth/login; the client keeps the token of a 200 response
CallLogin ==
    /\ auth.phase = "on"
    /\ \E method \in {"POST", "GET"} : \E body \in LoginBodies :
        \E out \in { Login(auth.j, auth.now, method, body) } :
            auth' = [auth EXCEPT
                        !.tokens = IF out.status = 200
                                   THEN Keep(@, [token |-> out.response[1].Token,
                                                 at |-> auth.now,
                                                 given |-> <<out.response[1].UserID,
                                                             out.response[1].Email,
                                                             out.response[1].Organization,
                                                             out.response[1].Role>>])
                                   ELSE @,
                        !.last = [op |-> "Login", method |-> method, body |-> body,
                                  result |-> out]]
    /\ UNCHANGED <<data, req, loc, resp, pages, chain, fetched, calls, slices, boot, logs, srv>>

NextAuth ==
    \/ Tick
    \/ CallGenerateToken
    \/ CallValidateToken
    \/ HTTPRequest
    \/ GRPCRequest
    \/ CallLogin

\* the application with authentication enabled (NewApp): no catalog call in flight
InitAuth ==
    /\ data = [id \in {} |-> <<>>]
    /\ req = NoReq
    /\ loc = NoLoc
    /\ resp = NoResp
    /\ pages = <<>>
    /\ chain = "none"
    /\ fetched = 0
    /\ calls = [p \in Callers |-> NoCall]
    /\ slices = << >>
    /\ boot = NoBoot
    /\ \E d \in TokenDurations :
          auth = [phase |-> "on", j |-> NewJWTManager("my-secret-key", d), now |-> 0,
                  tokens |-> {}, last |-> NoLast]
    /\ logs = NoLogs
    /\ srv = NoSrv

SpecAuth == InitAuth /\ [][NextAuth]_vars

(***************************************************************************)
(* The global logger (package logger): globalLogger, once and mu, used by  *)
(* goroutines that call Init, Get and SetLogger.  One action is one step   *)
(* of one call: taking or releasing mu, entering once.Do, one read or one  *)
(* write of globalLogger.                                                  *)
(***************************************************************************)
Goroutines == {"g1", "g2"}

\* the levels zapcore.ParseLevel accepts
ZapLevels == {"debug", "info", "warn", "error", "dpanic", "panic", "fatal"}

\* the LOG_LEVEL values Init is called with
LogLevels == {"info", "verbose"}

\* zapcore.ParseLevel: (level, error)
ParseLevel(text) ==
    IF text \in ZapLevels THEN [level |-> text, err |-> <<>>]
    ELSE [level |-> "info", err |-> << <<"unrecognized level: %q", text>> >>]

\* globalLogger before it is assigned: the nil *zap.SugaredLogger
NilLogger == [from |-> "nil"]

\* the locals of a goroutine that is in no call of the package
Idle == [pc |-> "idle"]

\* sync.RWMutex: RLock is granted while no writer holds or awaits the lock
CanRLock == logs.mu.writer = "none"

\* the goroutine holds mu exclusively
HoldsLock(g) == logs.mu.writer = g /\ logs.mu.readers = {}

\* the record of a write of globalLogger by g: whether g holds mu exclusively,
\* and which other goroutines hold mu at that moment
WriteBy(g, fn) ==
    [by |-> g, fn |-> fn, exclusive |-> HoldsLock(g),
     others |-> (logs.mu.readers \cup ({logs.mu.writer} \cap Goroutines)) \ {g}]

\* Get: mu.RLock()
GetRLock(g) ==
    /\ logs.phase = "on"
    /\ logs.g[g].pc = "idle"
    /\ CanRLock
    /\ logs' = [logs EXCEPT !.mu.readers = @ \cup {g},
                            !.g[g] = [pc |-> "Get_check"]]
    /\ UNCHANGED <<data, req, loc, resp, pages, chain, fetched, calls, slices, boot, auth, srv>>

\* Get: if globalLogger == nil
GetCheck(g) ==
    /\ logs.phase = "on"
    /\ logs.g[g].pc = "Get_check"
    /\ logs' = [logs EXCEPT !.g[g] = [pc |-> IF logs.globalLogger = NilLogger
                                             THEN "Get_fallback" ELSE "Get_return"]]
    /\ UNCHANGED <<data, req, loc, resp, pages, chain, fetched, calls, slices, boot, auth, srv>>

\* Get: globalLogger = zapLogger.Sugar(), the fallback logger, written while
\* the goroutine holds the read lock
GetFallback(g) ==
    /\ logs.phase = "on"
    /\ logs.g[g].pc = "Get_fallback"
    /\ logs' = [logs EXCEPT !.globalLogger = [from |-> "Get", by |-> g],
                            !.write = WriteBy(g, "Get"),
                            !.g[g] = [pc |-> "Get_return"]]
    /\ UNCHANGED <<data, req, loc, resp, pages, chain, fetched, calls, slices, boot, auth, srv>>

\* Get: return globalLogger, and the deferred mu.RUnlock()
GetReturn(g) ==
    /\ logs.phase = "on"
    /\ logs.g[g].pc = "Get_return"
    /\ logs' = [logs EXCEPT !.mu.readers = @ \ {g},
                            !.returned = [fn |-> "Get", by |-> g, logger |-> logs.globalLogger],
                            !.g[g] = Idle]
    /\ UNCHANGED <<data, req, loc, resp, pages, chain, fetched, calls, slices, boot, auth, srv>>

\* SetLogger: mu.Lock() announces the writer, which then waits for the readers
SetLoggerLock(g) ==
    /\ logs.phase = "on"
    /\ logs.g[g].pc = "idle"
    /\ logs.mu.writer = "none"
    /\ logs' = [logs EXCEPT !.mu.writer = g, !.g[g] = [pc |-> "SetLogger_write"]]
    /\ UNCHANGED <<data, req, loc, resp, pages, chain, fetched, calls, slices, boot, auth, srv>>

\* SetLogger: globalLogger = logger, once the readers have left
SetLoggerWrite(g) ==
    /\ logs.phase = "on"
    /\ logs.g[g].pc = "SetLogger_write"
    /\ logs.mu.readers = {}
    /\ logs' = [logs EXCEPT !.globalLogger = [from |-> "SetLogger", by |-> g],
                            !.write = WriteBy(g, "SetLogger"),
                            !.g[g] = [pc |-> "SetLogger_unlock"]]
    /\ UNCHANGED <<data, req, loc, resp, pages, chain, fetched, calls, slices, boot, auth, srv>>

\* SetLogger: the deferred mu.Unlock()
SetLoggerUnlock(g) ==
    /\ logs.phase = "on"
    /\ logs.g[g].pc = "SetLogger_unlock"
    /\ logs' = [logs EXCEPT !.mu.writer = "none",
                            !.returned = [fn |-> "SetLogger", by |-> g],
                            !.g[g] = Idle]
    /\ UNCHANGED <<data, req, loc, resp, pages, chain, fetched, calls, slices, boot, auth, srv>>

\* Init(logLevel): var err error; once.Do(...).  When once is done the
\* function is not run; while another goroutine runs it, the caller waits
InitEnter(g) ==
    /\ logs.phase = "on"
    /\ logs.g[g].pc = "idle"
    /\ logs.once.running = "none"
    /\ \E logLevel \in LogLevels :
        logs' = [logs EXCEPT
                   !.once.running = IF logs.once.done THEN "none" ELSE g,
                   !.g[g] = [pc |-> IF logs.once.done THEN "Init_return" ELSE "Init_parse",
                             logLevel |-> logLevel, err |-> <<>>, first |-> ~logs.once.done,
                             failure |-> "none"]]
    /\ UNCHANGED <<data, req, loc, resp, pages, chain, fetched, calls, slices, boot, auth, srv>>

\* Init: level, err := zapcore.ParseLevel(logLevel) declares a new err inside
\* the function literal; the error built from it is assigned to that inner
\* variable, and the err that Init returns keeps its value
InitParse(g) ==
    /\ logs.phase = "on"
    /\ logs.g[g].pc = "Init_parse"
    /\ LET parsed == ParseLevel(logs.g[g].logLevel)
       IN  logs' = IF parsed.err # <<>>
                   THEN [logs EXCEPT !.once = [done |-> TRUE, running |-> "none"],
                                     !.g[g].failure = "level",
                                     !.g[g].pc = "Init_return"]
                   ELSE [logs EXCEPT !.g[g].pc = "Init_build"]
    /\ UNCHANGED <<data, req, loc, resp, pages, chain, fetched, calls, slices, boot, auth, srv>>

\* Init: zapLogger, loggerErr := config.Build(), which succeeds or fails; the
\* error of a failure is assigned to the inner err as well
InitBuild(g) ==
    /\ logs.phase = "on"
    /\ logs.g[g].pc = "Init_build"
    /\ \E built \in BOOLEAN :
        logs' = IF built
                THEN [logs EXCEPT !.g[g].pc = "Init_lock"]
                ELSE [logs EXCEPT !.once = [done |-> TRUE, running |-> "none"],
                                  !.g[g].failure = "build",
                                  !.g[g].pc = "Init_return"]
    /\ UNCHANGED <<data, req, loc, resp, pages, chain, fetched, calls, slices, boot, auth, srv>>

\* Init: mu.Lock() announces the writer, which then waits for the readers
InitLock(g) ==
    /\ logs.phase = "on"
    /\ logs.g[g].pc = "Init_lock"
    /\ logs.mu.writer = "none"
    /\ logs' = [logs EXCEPT !.mu.writer = g, !.g[g].pc = "Init_write"]
    /\ UNCHANGED <<data, req, loc, resp, pages, chain, fetched, calls, slices, boot, auth, srv>>

\* Init: globalLogger = zapLogger.Sugar(), once the readers have left
InitWrite(g) ==
    /\ logs.phase = "on"
    /\ logs.g[g].pc = "Init_write"
    /\ logs.mu.readers = {}
    /\ logs' = [logs EXCEPT !.globalLogger = [from |-> "Init", by |-> g],
                            !.write = WriteBy(g, "Init"),
                            !.g[g].pc = "Init_unlock"]
    /\ UNCHANGED <<data, req, loc, resp, pages, chain, fetched, calls, slices, boot, auth, srv>>

\* Init: mu.Unlock(), the end of the function given to once.Do
InitUnlock(g) ==
    /\ logs.phase = "on"
    /\ logs.g[g].pc = "Init_unlock"
    /\ logs' = [logs EXCEPT !.mu.writer = "none",
                            !.once = [done |-> TRUE, running |-> "none"],
                            !.g[g].pc = "Init_return"]
    /\ UNCHANGED <<data, req, loc, resp, pages, chain, fetched, calls, slices, boot, auth, srv>>

\* Init: return err
InitReturn(g) ==
    /\ logs.phase = "on"
    /\ logs.g[g].pc = "Init_return"
    /\ logs' = [logs EXCEPT !.returned = [fn |-> "Init", by |-> g,
                                          logLevel |-> logs.g[g].logLevel,
                                          first |-> logs.g[g].first,
                                          failure |-> logs.g[g].failure,
                                          err |-> logs.g[g].err],
                            !.g[g] = Idle]
    /\ UNCHANGED <<data, req, loc, resp, pages, chain, fetched, calls, slices, boot, auth, srv>>

NextLogger ==
    \E g \in Goroutines :
        \/ GetRLock(g)
        \/ GetCheck(g)
        \/ GetFallback(g)
        \/ GetReturn(g)
        \/ SetLoggerLock(g)
        \/ SetLoggerWrite(g)
        \/ SetLoggerUnlock(g)
        \/ InitEnter(g)
        \/ InitParse(g)
        \/ InitBuild(g)
        \/ InitLock(g)
        \/ InitWrite(g)
        \/ InitUnlock(g)
        \/ InitReturn(g)

\* the package before any call: globalLogger nil, once not done, mu free
InitLogger ==
    /\ data = [id \in {} |-> <<>>]
    /\ req = NoReq
    /\ loc = NoLoc
    /\ resp = NoResp
    /\ pages = <<>>
    /\ chain = "none"
    /\ fetched = 0
    /\ calls = [p \in Callers |-> NoCall]
    /\ slices = << >>
    /\ boot = NoBoot
    /\ auth = NoAuth
    /\ logs = [phase |-> "on", globalLogger |-> NilLogger,
               once |-> [done |-> FALSE, running |-> "none"],
               mu |-> [readers |-> {}, writer |-> "none"],
               g |-> [x \in Goroutines |-> Idle],
               write |-> [by |-> "none"],
               returned |-> [fn |-> "none"]]
    /\ srv = NoSrv

SpecLogger == InitLogger /\ [][NextLogger]_vars

(***************************************************************************)
(* startServers (cmd/main.go): the goroutines of runGRPCServer and         *)
(* runHTTPGateway send their results on errs, the signal goroutine cancels *)
(* the context, and startServers returns with the first value it receives; *)
(* the process exits when it returns.  A server holds the requests it is   *)
(* handling.                                                               *)
(***************************************************************************)
\* the process is running: startServers has not returned
Running == srv.phase = "on" /\ srv.main = "blocked"

\* runGRPCServer: net.Listen fails, or the server is created, the goroutine
\* waiting for ctx.Done() started and grpcServer.Serve(lis) called
runGRPCServer ==
    /\ Running
    /\ srv.grpc.state = "starting"
    /\ \E listened \in BOOLEAN :
        srv' = IF listened
               THEN [srv EXCEPT !.grpc.state = "serving"]
               ELSE [srv EXCEPT !.grpc.state = "failed",
                                !.errs = Append(@, <<"failed to listen on gRPC port: %w">>)]
    /\ UNCHANGED <<data, req, loc, resp, pages, chain, fetched, calls, slices, boot, auth, logs>>

\* runHTTPGateway: the registration of the handler fails, or the goroutine
\* waiting for ctx.Done() is started and srv.ListenAndServe() called
runHTTPGateway ==
    /\ Running
    /\ srv.http.state = "starting"
    /\ \E registered \in BOOLEAN :
        srv' = IF registered
               THEN [srv EXCEPT !.http.state = "serving"]
               ELSE [srv EXCEPT !.http.state = "failed",
                                !.errs = Append(@, <<"failed to register gateway handler: %w">>)]
    /\ UNCHANGED <<data, req, loc, resp, pages, chain, fetched, calls, slices, boot, auth, logs>>

\* a server that is serving accepts a request
RequestArrives ==
    /\ Running
    /\ \E s \in {"grpc", "http"} :
        /\ srv[s].state = "serving"
        /\ srv[s].inflight < MaxInflight
        /\ srv' = [srv EXCEPT ![s].inflight = @ + 1]
    /\ UNCHANGED <<data, req, loc, resp, pages, chain, fetched, calls, slices, boot, auth, logs>>

\* a server finishes a request it is handling
RequestDone ==
    /\ Running
    /\ \E s \in {"grpc", "http"} :
        /\ srv[s].inflight > 0
        /\ srv' = [srv EXCEPT ![s].inflight = @ - 1]
    /\ UNCHANGED <<data, req, loc, resp, pages, chain, fetched, calls, slices, boot, auth, logs>>

\* the signal goroutine: sig := <-c, then cancel()
Signal ==
    /\ Running
    /\ ~srv.signalled
    /\ srv' = [srv EXCEPT !.signalled = TRUE, !.ctx = "cancelled"]
    /\ UNCHANGED <<data, req, loc, resp, pages, chain, fetched, calls, slices, boot, auth, logs>>

\* the goroutine of runGRPCServer: <-ctx.Done(), grpcServer.GracefulStop()
\* stops accepting and waits for the requests in flight
GracefulStop ==
    /\ Running
    /\ srv.ctx = "cancelled"
    /\ srv.grpc.state = "serving"
    /\ srv' = [srv EXCEPT !.grpc.state = "stopping"]
    /\ UNCHANGED <<data, req, loc, resp, pages, chain, fetched, calls, slices, boot, auth, logs>>

\* grpcServer.Serve returns nil once GracefulStop is done, and the goroutine
\* of startServers sends it on errs
ServeReturns ==
    /\ Running
    /\ srv.grpc.state = "stopping"
    /\ srv.grpc.inflight = 0
    /\ srv' = [srv EXCEPT !.grpc.state = "stopped", !.errs = Append(@, <<>>)]
    /\ UNCHANGED <<data, req, loc, resp, pages, chain, fetched, calls, slices, boot, auth, logs>>

\* the goroutine of runHTTPGateway: <-ctx.Done(), srv.Shutdown(ctxShutDown)
\* closes the listeners and begins to wait for the connections in use
Shutdown ==
    /\ Running
    /\ srv.ctx = "cancelled"
    /\ srv.http.state = "serving"
    /\ srv' = [srv EXCEPT !.http.state = "draining"]
    /\ UNCHANGED <<data, req, loc, resp, pages, chain, fetched, calls, slices, boot, auth, logs>>

\* srv.ListenAndServe() returns ErrServerClosed as soon as Shutdown has been
\* called; runHTTPGateway returns nil, which is sent on errs
ListenAndServeReturns ==
    /\ Running
    /\ srv.http.state \in {"draining", "closed"}
    /\ ~srv.http.returned
    /\ srv' = [srv EXCEPT !.http.returned = TRUE, !.errs = Append(@, <<>>)]
    /\ UNCHANGED <<data, req, loc, resp, pages, chain, fetched, calls, slices, boot, auth, logs>>

\* srv.Shutdown returns: no connection is in use any more
ShutdownReturns ==
    /\ Running
    /\ srv.http.state = "draining"
    /\ srv.http.inflight = 0
    /\ srv' = [srv EXCEPT !.http.state = "closed"]
    /\ UNCHANGED <<data, req, loc, resp, pages, chain, fetched, calls, slices, boot, auth, logs>>

\* startServers: if err := <-errs; err != nil { return err }; return nil
startServersReturns ==
    /\ Running
    /\ srv.errs # <<>>
    /\ srv' = [srv EXCEPT !.main = "returned", !.ret = Head(srv.errs),
                          !.errs = Tail(@), !.ctx = "cancelled"]
    /\ UNCHANGED <<data, req, loc, resp, pages, chain, fetched, calls, slices, boot, auth, logs>>

NextShutdown ==
    \/ runGRPCServer
    \/ runHTTPGateway
    \/ RequestArrives
    \/ RequestDone
    \/ Signal
    \/ GracefulStop
    \/ ServeReturns
    \/ Shutdown
    \/ ListenAndServeReturns
    \/ ShutdownReturns
    \/ startServersReturns

\* startServers blocked on errs after it started its three goroutines
InitShutdown ==
    /\ data = [id \in {} |-> <<>>]
    /\ req = NoReq
    /\ loc = NoLoc
    /\ resp = NoResp
    /\ pages = <<>>
    /\ chain = "none"
    /\ fetched = 0
    /\ calls = [p \in Callers |-> NoCall]
    /\ slices = << >>
    /\ boot = NoBoot
    /\ auth = NoAuth
    /\ logs = NoLogs
    /\ srv = [phase |-> "on", ctx |-> "active", signalled |-> FALSE,
              grpc |-> [state |-> "starting", inflight |-> 0],
              http |-> [state |-> "starting", inflight |-> 0, returned |-> FALSE],
              errs |-> <<>>, main |-> "blocked", ret |-> <<>>]

SpecShutdown == InitShutdown /\ [][NextShutdown]_vars

(***************************************************************************)
(* Vocabulary of the properties.                                           *)
(***************************************************************************)
Range(seq) == { seq[i] : i \in DOMAIN seq }

IsListCall == req.op = "ListServices"

\* the list call made last passed validation and ran filter, sort and pagination
ListRan == IsListCall /\ req.PageSize >= 0 /\ req.PageSize <= MaxPageSize

Succeeded == resp.err = <<>> /\ resp.res # <<>>

IsInvalidArgument == resp.res = <<>> /\ resp.err # <<>> /\ resp.err[1].code = "InvalidArgument"

\* the pagination step ran: in a list call that got a start index, or called directly
PaginateRan == (ListRan /\ loc.startIndex # <<>>) \/ req.op = "paginateServices"

IsNotFound == resp.res = <<>> /\ resp.err # <<>> /\ resp.err[1].code = "NotFound"

\* the error is the InvalidArgument error "service ID is required"
IsIdRequiredError ==
    IsInvalidArgument /\ resp.err[1].format = "%v: service ID is required"

\* the wire version w carries the fields of the stored version v
SameVersion(w, v) ==
    /\ w.Id = v.ID /\ w.Version = v.Version /\ w.ServiceId = v.ServiceID
    /\ w.Description = v.Description /\ w.IsActive = v.IsActive
    /\ w.CreatedAt.Seconds = v.CreatedAt /\ w.UpdatedAt.Seconds = v.UpdatedAt

\* the wire versions ws are the stored versions vs, one for one and in order
SameVersions(ws, vs) ==
    /\ Len(ws) = Len(vs)
    /\ \A i \in 1..Len(vs) : SameVersion(ws[i], vs[i])

\* the filter as the specification words it
Matches(s, org, q) ==
    /\ org = "" \/ s.OrganizationID = org
    /\ \/ q = <<>>
       \/ Contains(ToLower(s.Name), ToLower(q))
       \/ Contains(ToLower(s.Description), ToLower(q))

MatchingIds(org, q) == { id \in DOMAIN data : Matches(data[id], org, q) }

FilteredCount == Cardinality(MatchingIds(req.OrganizationId, req.SearchQuery))

\* the sort defaults as the specification words them
EffectiveSortBy(sb) == IF sb \in {"name", "created_at", "updated_at"} THEN sb ELSE "name"
EffectiveSortOrder(so) == IF so \in {"asc", "desc"} THEN so ELSE "asc"

\* a is not after b in the natural order of the field
FieldLeq(a, b, sb) ==
    CASE sb = "name" -> ~StrLess(b.Name, a.Name)
      [] sb = "created_at" -> a.CreatedAt <= b.CreatedAt
      [] sb = "updated_at" -> a.UpdatedAt <= b.UpdatedAt

InSortOrder(a, b, sb, so) == IF so = "desc" THEN FieldLeq(b, a, sb) ELSE FieldLeq(a, b, sb)

\* the same on two wire records
WireInSortOrder(a, b, sb, so) ==
    LET m(w) == [Name |-> w.Name, CreatedAt |-> w.CreatedAt.Seconds,
                 UpdatedAt |-> w.UpdatedAt.Seconds]
    IN  InSortOrder(m(a), m(b), sb, so)

\* strings.TrimSpace on the byte strings of the model
RECURSIVE TrimSpace(_)
TrimSpace(q) ==
    IF q = <<>> THEN q
    ELSE IF Head(q) = Byte.sp THEN TrimSpace(Tail(q))
    ELSE IF q[Len(q)] = Byte.sp THEN TrimSpace(SubSeq(q, 1, Len(q) - 1))
    ELSE q

\* tok is "page_" followed by a decimal integer literal that denotes k
DenotesOffset(tok, k) ==
    \E sign \in {<<>>, <<Byte.plus>>, <<Byte.minus>>} : \E zeros \in {<<>>, <<Byte.zero>>} :
        /\ sign = <<Byte.minus>> => k <= 0
        /\ tok = PagePrefix \o sign \o zeros \o FormatNat(IF k < 0 THEN 0 - k ELSE k)

(***************************************************************************)
(* C1  Following next_page_token from the empty token until it is empty,   *)
(* with a page_size in [1,100], yields pages whose concatenation holds     *)
(* every service matching the filter exactly once, in sort order.          *)
(***************************************************************************)
C1_PagesReproduceSequence ==
    (IsListCall /\ chain = "complete" /\ req.PageSize >= 1 /\ req.PageSize <= MaxPageSize)
    => /\ Len(pages) = FilteredCount
       /\ { pages[i].Id : i \in DOMAIN pages } = MatchingIds(req.OrganizationId, req.SearchQuery)
       /\ \A i \in 1..(Len(pages) - 1) :
            WireInSortOrder(pages[i], pages[i + 1],
                            EffectiveSortBy(req.SortBy), EffectiveSortOrder(req.SortOrder))

(***************************************************************************)
(* C2  Determinism: a call repeated with identical arguments against the   *)
(* unmodified store returns the identical result (or the same error).      *)
(***************************************************************************)
C2_RepeatedCallSameResult ==
    [][(req.op # "none" /\ req' = req) => resp' = resp]_vars

(***************************************************************************)
(* C3  An empty page_token yields start offset 0 for every filtered count; *)
(* a non-empty page_token is accepted, with offset k, iff it is page_<k>   *)
(* with 0 <= k < the post-filter count; every other token yields           *)
(* InvalidArgument and no response.                                        *)
(***************************************************************************)
C3_PageTokenAcceptance ==
    ListRan =>
        IF req.PageToken = <<>>
        THEN Succeeded /\ loc.startIndex = <<0>>
        ELSE /\ Succeeded <=> \E k \in 0..(FilteredCount - 1) : DenotesOffset(req.PageToken, k)
             /\ Succeeded => /\ loc.startIndex # <<>>
                             /\ DenotesOffset(req.PageToken, loc.startIndex[1])
             /\ ~Succeeded => IsInvalidArgument /\ loc.startIndex = <<>>

\* page_1 is refused although the store holds more than one service,
\* because only one service is left after filtering
C3_Witness ==
    /\ ListRan
    /\ req.PageToken = FormatPageToken(1)
    /\ IsInvalidArgument
    /\ Len(loc.filtered) = 1
    /\ Len(loc.all) > 1

\* the error is the page_size error, its message naming the bounds 0 and 100
IsPageSizeError ==
    /\ IsInvalidArgument
    /\ resp.err[1].format = "%v: page_size must be between 0 and %d, got %d"
    /\ resp.err[1].nums = <<100, req.PageSize>>

(***************************************************************************)
(* C4  ListServices returns InvalidArgument "page_size must be between 0   *)
(* and 100" for every page_size < 0 and every page_size > 100 whatever the *)
(* other fields are, and list validation accepts every page_size in        *)
(* 0..100.                                                                 *)
(***************************************************************************)
C4_PageSizeBounds ==
    IsListCall =>
        IF req.PageSize < 0 \/ req.PageSize > 100
        THEN IsPageSizeError
        ELSE /\ validateListServicesRequest(req) = <<>>
             /\ ~IsPageSizeError
             /\ loc.pageSize > 0

\* a request with page_size 101 is refused for its page size although its
\* token is malformed too and an organization filter is set
C4_Witness ==
    /\ IsListCall
    /\ req.PageSize = 101
    /\ req.PageToken = PagePrefix \o <<Byte.x>>
    /\ req.OrganizationId # ""
    /\ IsPageSizeError

(***************************************************************************)
(* C5  ListServices with page_size = 0 returns what ListServices with      *)
(* page_size = 10 and otherwise identical arguments returns (for the same  *)
(* enumeration of the store).                                              *)
(***************************************************************************)
C5_ZeroIsTen ==
    (IsListCall /\ req.PageSize = 0)
    => /\ validateListServicesRequest([req EXCEPT !.PageSize = 10]) = <<>>
       /\ resp = ListServicesBody([req EXCEPT !.PageSize = 10], loc.all).resp

\* page_size 0 cuts a result of 11 services after the tenth
C5_Witness ==
    /\ IsListCall
    /\ req.PageSize = 0
    /\ Succeeded
    /\ resp.res[1].TotalCount = 11
    /\ Len(resp.res[1].Services) = 10
    /\ resp.res[1].NextPageToken = FormatPageToken(10)

C7_QueryTrimmed ==
    ListRan =>
        Range(loc.filtered) =
            { id \in Range(loc.all) :
                Matches(data[id], req.OrganizationId, TrimSpace(req.SearchQuery)) }

(***************************************************************************)
(* C8  After sortServices the slice is a permutation of its input and      *)
(* every adjacent pair is ordered by the effective sort field:             *)
(* non-decreasing for asc, non-increasing for desc, equal keys included.   *)
(***************************************************************************)
C8_SortedPermutation ==
    ListRan =>
        /\ Len(loc.sorted) = Len(loc.filtered)
        /\ Range(loc.sorted) = Range(loc.filtered)
        /\ \A i \in 1..(Len(loc.sorted) - 1) :
             InSortOrder(data[loc.sorted[i]], data[loc.sorted[i + 1]],
                         EffectiveSortBy(req.SortBy), EffectiveSortOrder(req.SortOrder))

\* a descending sort of three services, two of them with equal keys, that
\* had to reorder its input
C8_Witness ==
    /\ ListRan
    /\ req.SortOrder = "desc"
    /\ Len(loc.sorted) = 3
    /\ loc.sorted # loc.filtered
    /\ \E i \in 1..2 :
         /\ InSortOrder(data[loc.sorted[i]], data[loc.sorted[i + 1]], EffectiveSortBy(req.SortBy), "asc")
         /\ InSortOrder(data[loc.sorted[i]], data[loc.sorted[i + 1]], EffectiveSortBy(req.SortBy), "desc")

(***************************************************************************)
(* C9  A sort_by that is empty or unknown is treated exactly as name, a    *)
(* sort_order that is empty or unknown exactly as asc, and an unrecognised *)
(* sort value never produces an error.                                     *)
(***************************************************************************)
C9_SortDefaults ==
    ListRan =>
        /\ loc.sorted = sortServices(loc.filtered, EffectiveSortBy(req.SortBy),
                                     EffectiveSortOrder(req.SortOrder))
        /\ req.PageToken = <<>> => Succeeded

\* an unknown field and an unknown order sort by name ascending, where
\* sorting by either timestamp would give another order
C9_Witness ==
    /\ ListRan
    /\ req.SortBy = "rating" /\ req.SortOrder = "up"
    /\ Succeeded
    /\ loc.sorted # sortServices(loc.filtered, "created_at", "asc")
    /\ loc.sorted # sortServices(loc.filtered, "updated_at", "asc")
    /\ loc.sorted # sortServices(loc.filtered, "name", "desc")

(***************************************************************************)
(* C10  In every successful ListServices response total_count is the       *)
(* number of services that satisfy the filter, whatever page_size,         *)
(* page_token, sort_by and sort_order are.                                 *)
(***************************************************************************)
C10_TotalCount ==
    (IsListCall /\ Succeeded) => resp.res[1].TotalCount = FilteredCount

\* a page shorter than the filtered set, which is smaller than the store
C10_Witness ==
    /\ IsListCall /\ Succeeded
    /\ req.PageToken # <<>>
    /\ Len(resp.res[1].Services) < resp.res[1].TotalCount
    /\ resp.res[1].TotalCount < Cardinality(DOMAIN data)

(***************************************************************************)
(* C11  For a start offset o below the total and effective page size p,    *)
(* paginateServices returns exactly the elements at positions              *)
(* [o, min(o+p, total)) of the slice it is given, and next_page_token is   *)
(* empty iff o+p >= total and page_<o+p> otherwise.                        *)
(***************************************************************************)
C11_PageIsSlice ==
    (PaginateRan /\ loc.startIndex[1] < Len(loc.sorted)) =>
        LET o == loc.startIndex[1]
            p == loc.pageSize
            total == Len(loc.sorted)
            e == IF o + p < total THEN o + p ELSE total
        IN  /\ Succeeded
            /\ Len(resp.res[1].Services) = e - o
            /\ \A i \in 1..(e - o) :
                 resp.res[1].Services[i] = convertToProtoService(data[loc.sorted[o + i]])
            /\ resp.res[1].NextPageToken = <<>> <=> o + p >= total
            /\ o + p < total => resp.res[1].NextPageToken = FormatPageToken(o + p)

\* ListServices returns a middle page: services come before it and after it
C11_Witness ==
    /\ ListRan /\ Succeeded
    /\ loc.startIndex = <<1>>
    /\ loc.pageSize = 1
    /\ Len(loc.sorted) = 3
    /\ resp.res[1].Services = << convertToProtoService(data[loc.sorted[2]]) >>
    /\ resp.res[1].NextPageToken = FormatPageToken(2)

(***************************************************************************)
(* C12  In the paginate step, a start offset greater than or equal to the  *)
(* number of filtered services gives an empty service list, an empty       *)
(* next_page_token and total_count equal to the filtered count, and no     *)
(* error.                                                                  *)
(***************************************************************************)
C12_EmptyPastEnd ==
    (PaginateRan /\ loc.startIndex[1] >= Len(loc.sorted)) =>
        /\ Succeeded
        /\ resp.res[1].Services = <<>>
        /\ resp.res[1].NextPageToken = <<>>
        /\ resp.res[1].TotalCount = Len(loc.sorted)
        /\ IsListCall => resp.res[1].TotalCount = FilteredCount

\* paginateServices is handed a start index past the end of a non-empty slice
C12_Witness ==
    /\ req.op = "paginateServices"
    /\ Len(loc.sorted) > 0
    /\ loc.startIndex[1] > Len(loc.sorted)
    /\ Succeeded
    /\ resp.res[1].TotalCount = Len(loc.sorted)

IsInvalidArgumentSaying(format) == IsInvalidArgument /\ resp.err[1].format = format

\* the fields of the request other than the one a rule is about pass list validation
PageSizeInRange == req.PageSize >= 0 /\ req.PageSize <= 100

IsCanceled ==
    /\ resp.res = <<>>
    /\ resp.err = << StatusError("Canceled", "request cancelled") >>

(***************************************************************************)
(* C18  For each of ListServices, GetService and GetServiceVersions, if    *)
(* the caller's context is already cancelled when the operation begins,    *)
(* the operation returns a Canceled error and the query engine does no     *)
(* work: nothing is validated, looked up, filtered, sorted or paginated    *)
(* and no data is returned.  With a live context the engine's result is    *)
(* returned as it is.                                                      *)
(***************************************************************************)
C18_CancelledShortCircuits ==
    req.op # "none" =>
        IF req.CtxErr # ""
        THEN IsCanceled /\ loc = NoLoc
        ELSE /\ ~IsCanceled
             /\ req.op = "GetService"
                  => resp = GetServiceOutcome([req EXCEPT !.CtxErr = ""])
             /\ req.op = "GetServiceVersions"
                  => resp = GetServiceVersionsOutcome([req EXCEPT !.CtxErr = ""])
             /\ req.op = "ListServices"
                  => \E out \in ListServicesOutcomes([req EXCEPT !.CtxErr = ""]) :
                        out.resp = resp /\ out.loc = loc

\* a cancelled ListServices call whose page_size the engine would have refused
C18_Witness ==
    /\ req.op = "ListServices"
    /\ req.CtxErr = "context canceled"
    /\ req.PageSize > MaxPageSize
    /\ Cardinality(DOMAIN data) > 0
    /\ IsCanceled
    /\ loc = NoLoc

(***************************************************************************)
(* C19  The catalog store is never mutated after construction: no          *)
(* ListServices, GetService or GetServiceVersions call, successful or      *)
(* failing, changes the id-to-service mapping, a service record or the     *)
(* order of a version list; the in-place sort of ListServices reorders     *)
(* only the slice of that call.                                            *)
(***************************************************************************)
C19_StoreNeverMutated ==
    [][ /\ data' = data
        /\ DOMAIN data' = DOMAIN data
        /\ \A id \in DOMAIN data : data'[id].Versions = data[id].Versions ]_vars

\* a list call whose sort reordered the slice it had enumerated, while every
\* id of the store still maps to the record with that id
C19_Witness ==
    /\ ListRan
    /\ Len(loc.sorted) = Len(loc.all)
    /\ Len(loc.sorted) >= 2
    /\ loc.sorted # loc.all
    /\ \A id \in DOMAIN data : data[id].ID = id

\* what the call of caller p returns when it runs alone and its range over
\* the map yields the order the call met
AloneResult(p) ==
    LET r == calls[p].req
    IN  CASE r.op = "ListServices" ->
                 IF validateListServicesRequest(r) # <<>>
                 THEN Failed(validateListServicesRequest(r)[1])
                 ELSE ListServicesBody(r, calls[p].order).resp
          [] r.op = "GetService" -> GetServiceOutcome(r)
          [] r.op = "GetServiceVersions" -> GetServiceVersionsOutcome(r)

C29_StepsInOrder ==
    IsListCall =>
        /\ ~PageSizeInRange => IsPageSizeError /\ loc = NoLoc
        /\ PageSizeInRange =>
              /\ Range(loc.all) = DOMAIN data
              /\ Range(loc.filtered) = MatchingIds(req.OrganizationId, req.SearchQuery)
              /\ Len(loc.sorted) = Len(loc.filtered)
              /\ Range(loc.sorted) = Range(loc.filtered)
              /\ resp.err # <<>> <=>
                    /\ req.PageToken # <<>>
                    /\ ~\E k \in 0..(Len(loc.filtered) - 1) : DenotesOffset(req.PageToken, k)
              /\ Succeeded =>
                    \A i \in 1..Len(resp.res[1].Services) :
                        resp.res[1].Services[i] =
                            convertToProtoService(data[loc.sorted[loc.startIndex[1] + i]])
        /\ resp.err # <<>> <=> resp.res = <<>>

\* a negative page_size with a page_token beyond the store: the page_size
\* error is returned and no step after validation has run
C29_Witness ==
    /\ IsListCall
    /\ req.PageSize = -1
    /\ req.PageToken = FormatPageToken(DefaultPageSize)
    /\ Cardinality(DOMAIN data) = MaxServices
    /\ IsPageSizeError
    /\ resp.res = <<>>
    /\ loc = NoLoc

\* the document cannot be parsed
Unparseable(doc) == ~doc.wellFormed \/ Undecodable(doc) # {}

(***************************************************************************)
(* C21  Catalog load is all-or-nothing: when the document cannot be parsed *)
(* (it is no YAML, or some created_at or updated_at is no date-time), the  *)
(* load returns an error, no server exists and no request is ever served;  *)
(* a server that serves holds every entry of the document with the         *)
(* timestamps the document gives.                                          *)
(***************************************************************************)
C21_LoadAllOrNothing ==
    /\ boot.phase \in {"failed", "exited"} =>
          /\ Unparseable(boot.doc)
          /\ boot.err # <<>>
          /\ data = [id \in {} |-> <<>>]
    /\ boot.phase = "serving" =>
          /\ ~Unparseable(boot.doc)
          /\ data = NewCatalogService(
                        [i \in 1..Len(boot.doc.services) |-> DecodeService(boot.doc.services[i])])
          /\ \A id \in DOMAIN data :
                data[id].CreatedAt > 0 /\ data[id].UpdatedAt > 0
    /\ req.op # "none" => boot.phase = "serving"

\* a document whose first entry is sound and whose last entry has an
\* updated_at that is no date-time: the process has ended without a catalog
C21_Witness ==
    /\ boot.phase = "exited"
    /\ Len(boot.doc.services) >= 2
    /\ 1 \notin Undecodable(boot.doc)
    /\ boot.doc.services[Len(boot.doc.services)].updated_at = NotADate
    /\ boot.err # <<>>
    /\ DOMAIN data = {}

\* the index of the last entry of the document with the id
LastEntry(doc, id) ==
    CHOOSE i \in 1..Len(doc.services) :
        /\ doc.services[i].id = id
        /\ \A j \in (i + 1)..Len(doc.services) : doc.services[j].id # id

(***************************************************************************)
(* C30  Service ids are unique in the constructed store: the store maps    *)
(* each id of the loaded list to the last record of the list with that id, *)
(* GetService returns that record, and total_count of an unfiltered        *)
(* ListServices is the number of distinct ids.                             *)
(***************************************************************************)
C30_IdsUnique ==
    boot.phase = "serving" =>
        LET ids == { boot.doc.services[i].id : i \in 1..Len(boot.doc.services) }
        IN  /\ DOMAIN data = ids
            /\ \A id \in ids :
                  /\ data[id].ID = id
                  /\ data[id] = DecodeService(boot.doc.services[LastEntry(boot.doc, id)])
            /\ (req.op = "GetService" /\ req.Id \in ids) =>
                  /\ Succeeded
                  /\ resp.res[1].Service =
                        convertToProtoService(
                            DecodeService(boot.doc.services[LastEntry(boot.doc, req.Id)]))
            /\ (IsListCall /\ req.OrganizationId = "" /\ req.SearchQuery = <<>>) =>
                  /\ Succeeded
                  /\ resp.res[1].TotalCount = Cardinality(ids)

\* three records were loaded, the first and the last under one id with
\* different contents: GetService returns the last
C30_Witness ==
    /\ boot.phase = "serving"
    /\ Len(boot.doc.services) = 3
    /\ boot.doc.services[1].id = boot.doc.services[3].id
    /\ boot.doc.services[2].id # boot.doc.services[1].id
    /\ boot.doc.services[1].body # boot.doc.services[3].body
    /\ req.op = "GetService" /\ req.Id = boot.doc.services[1].id
    /\ Succeeded
    /\ resp.res[1].Service.Name = ServiceBodies[boot.doc.services[3].body].Name

\* the offset the page_token of the request denotes (0 for the empty token)
RequestOffset ==
    IF req.PageToken = <<>> THEN 0
    ELSE CHOOSE k \in 0..FilteredCount : DenotesOffset(req.PageToken, k)

\* the page size in effect for the request
EffectivePageSize == IF req.PageSize = 0 THEN 10 ELSE req.PageSize

\* ceil(n / p)
CeilDiv(n, p) == (n + p - 1) \div p

\* every next_page_token handed out lies strictly between the offset of its
\* request and the filtered count, and no token that was followed is refused
TokensAdvance ==
    /\ (ListRan /\ Succeeded /\ resp.res[1].NextPageToken # <<>>) =>
          \E k \in (RequestOffset + 1)..(FilteredCount - 1) :
              resp.res[1].NextPageToken = FormatPageToken(k)
    /\ chain # "broken"

(***************************************************************************)
(* C28 as stated: every non-empty next_page_token encodes an offset        *)
(* strictly above the offset of its request and strictly below the         *)
(* filtered count, is accepted when followed, and following tokens from    *)
(* the empty token reaches an empty next_page_token after at most          *)
(* ceil(N/p) calls (N the filtered count, p the effective page size).      *)
(***************************************************************************)
C28_AtMostCeilCalls ==
    /\ TokensAdvance
    /\ chain = "open" => fetched < CeilDiv(FilteredCount, EffectivePageSize)
    /\ chain = "complete" => fetched <= CeilDiv(FilteredCount, EffectivePageSize)

(***************************************************************************)
(* C28 as amended: every non-empty next_page_token encodes an offset       *)
(* strictly above the offset of its request and strictly below the         *)
(* filtered count, is accepted when followed, and following tokens from    *)
(* the empty token reaches an empty next_page_token after at most          *)
(* ceil(N/p) calls when N > 0 and after one call when N = 0.               *)
(***************************************************************************)
C28_PaginationTerminates ==
    /\ TokensAdvance
    /\ chain = "open" => fetched < CeilDiv(FilteredCount, EffectivePageSize)
    /\ chain = "complete" =>
          fetched <= IF FilteredCount = 0 THEN 1
                     ELSE CeilDiv(FilteredCount, EffectivePageSize)

\* three services match and are fetched two to a page: the second call,
\* which followed page_2, returned the empty token
C28_Witness ==
    /\ chain = "complete"
    /\ FilteredCount = 3
    /\ req.PageSize = 2
    /\ req.PageToken = FormatPageToken(2)
    /\ fetched = 2
    /\ Len(pages) = 3

\* the ValidateToken call made last accepted the token and returned claims
\* carrying the four values
AcceptedWith(given) ==
    /\ auth.last.result.err = <<>>
    /\ auth.last.result.claims # <<>>
    /\ auth.last.result.claims[1].UserID = given[1]
    /\ auth.last.result.claims[1].Email = given[2]
    /\ auth.last.result.claims[1].Organization = given[3]
    /\ auth.last.result.claims[1].Role = given[4]

\* the ValidateToken call made last returned an error and nil claims
Rejected == auth.last.result.err # <<>> /\ auth.last.result.claims = <<>>

\* the token string is empty, is no token, or is a token another key signed
EmptyMalformedOrOtherKey(ts) ==
    \/ ts = <<>>
    \/ Len(ts) = 1 /\ ~ts[1].jwt
    \/ Len(ts) = 1 /\ ts[1].jwt /\ ts[1].mac # HMAC(auth.j.secretKey, ts[1].alg, ts[1].claims)

(***************************************************************************)
(* C23 as stated: a token GenerateToken produced for a user id (which may  *)
(* be empty), email, organization and role is accepted by ValidateToken of *)
(* the manager with the same secret, with claims carrying exactly those    *)
(* four values; the empty string, a malformed token and a token signed     *)
(* with a different key are rejected with an error and nil claims.         *)
(***************************************************************************)
C23_TokenRoundTrip ==
    auth.last.op = "ValidateToken" =>
        /\ \A i \in auth.tokens :
              auth.last.tokenString = << i.token >> => AcceptedWith(i.given)
        /\ EmptyMalformedOrOtherKey(auth.last.tokenString) => Rejected

(***************************************************************************)
(* C23 as amended: a token GenerateToken produced for a user id (which may *)
(* be empty), email, organization and role is accepted by ValidateToken of *)
(* the manager with the same secret until it expires (while less than the  *)
(* token duration has passed since it was generated), with claims carrying *)
(* exactly those four values; the empty string, a malformed token and a    *)
(* token signed with a different key are rejected with an error and nil    *)
(* claims.                                                                 *)
(***************************************************************************)
C23_RoundTripUntilExpiry ==
    auth.last.op = "ValidateToken" =>
        /\ \A i \in auth.tokens :
              (auth.last.tokenString = << i.token >> /\ auth.now < i.at + auth.j.tokenDuration)
                  => AcceptedWith(i.given)
        /\ EmptyMalformedOrOtherKey(auth.last.tokenString) => Rejected

\* a token generated for the empty user id is validated a second after it
\* was generated: it is accepted and the claims carry the empty user id
C23_Witness ==
    /\ auth.last.op = "ValidateToken"
    /\ \E i \in auth.tokens :
          /\ auth.last.tokenString = << i.token >>
          /\ i.given[1] = ""
          /\ auth.now = i.at + 1
          /\ AcceptedWith(i.given)
          /\ auth.last.result.claims[1].Subject = ""

\* the header value is exactly "Bearer <token>" with a token that validates now
IsValidBearer(h) ==
    /\ Len(h) = 3
    /\ h[1] = Word("Bearer") /\ h[2] = Space
    /\ ValidateToken(auth.j, auth.now, << h[3] >>).err = <<>>

(***************************************************************************)
(* C22  With authentication enabled the HTTP middleware invokes the next   *)
(* handler iff the path is /health, or the method is OPTIONS, or the       *)
(* Authorization header is exactly "Bearer <token>" with a token that      *)
(* validates, and otherwise answers 401 without invoking it; the gRPC      *)
(* interceptor invokes the handler iff the method is the health check or   *)
(* the first authorization value of the metadata is such a header, and     *)
(* otherwise returns Unauthenticated without invoking it.                  *)
(***************************************************************************)
C22_HandlerOnlyWithValidToken ==
    /\ auth.last.op = "HTTP" =>
          LET r == auth.last.request
              pass == r.Path = "/health" \/ r.Method = "OPTIONS" \/ IsValidBearer(r.Authorization)
          IN  /\ auth.last.result.next <=> pass
              /\ ~pass => auth.last.result.status = 401
    /\ auth.last.op = "gRPC" =>
          LET md == auth.last.md
              pass == \/ auth.last.fullMethod = "/grpc.health.v1.Health/Check"
                      \/ /\ md.present
                         /\ Len(md.authorization) >= 1
                         /\ IsValidBearer(md.authorization[1])
          IN  /\ auth.last.result.handler <=> pass
              /\ ~pass => auth.last.result.code = "Unauthenticated"

\* a GET of /v1/services whose header names the scheme in lower case before
\* a token that validates: 401, and the next handler is not invoked
C22_Witness ==
    /\ auth.last.op = "HTTP"
    /\ auth.last.request.Path = "/v1/services"
    /\ auth.last.request.Method = "GET"
    /\ \E i \in auth.tokens :
          /\ auth.last.request.Authorization = << Word("bearer"), Space, i.token >>
          /\ ValidateToken(auth.j, auth.now, << i.token >>).err = <<>>
    /\ auth.last.result.status = 401
    /\ ~auth.last.result.next

\* the demo users as documented: <<email, password, organization, role>>
DocumentedDemoUsers ==
    { <<"admin@org1.com", "admin123", "org-1", "admin">>,
      <<"user@org1.com", "user123", "org-1", "user">>,
      <<"admin@org2.com", "admin123", "org-2", "admin">>,
      <<"user@org2.com", "user123", "org-2", "user">>,
      <<"admin@org3.com", "admin123", "org-3", "admin">>,
      <<"user@org3.com", "user123", "org-3", "user">> }

\* the documented demo users the body of a login request matches
MatchedUsers(body) ==
    { u \in DocumentedDemoUsers :
        u[1] = body.Email /\ u[2] = body.Password /\ u[3] = body.Organization }

(***************************************************************************)
(* C24  Login issues a token only for matching credentials: a POST returns *)
(* 200 with a token iff the email is a demo user's and the password and    *)
(* the organization equal that user's; any other non-empty triple returns  *)
(* 401 with no token, a missing email, password or organization returns    *)
(* 400, a method other than POST returns 405, and the organization and the *)
(* role of the issued token are those of the matched user.                 *)
(***************************************************************************)
C24_LoginOnlyForMatchingCredentials ==
    auth.last.op = "Login" =>
        LET body == auth.last.body
            out == auth.last.result
        IN  /\ auth.last.method # "POST" => out.status = 405 /\ out.response = <<>>
            /\ out.status = 200 <=> (/\ auth.last.method = "POST"
                                     /\ body.decodes
                                     /\ MatchedUsers(body) # {})
            /\ (auth.last.method = "POST" /\ body.decodes) =>
                  IF body.Email = "" \/ body.Password = "" \/ body.Organization = ""
                  THEN out.status = 400 /\ out.response = <<>>
                  ELSE MatchedUsers(body) = {} => out.status = 401 /\ out.response = <<>>
            /\ out.status = 200 =>
                  /\ Len(out.response) = 1
                  /\ LET v == ValidateToken(auth.j, auth.now, << out.response[1].Token >>)
                     IN  /\ v.err = <<>>
                         /\ \A u \in MatchedUsers(body) :
                               /\ v.claims[1].Organization = u[3]
                               /\ v.claims[1].Role = u[4]

\* the password of a demo user posted with another demo organization: 401
C24_Witness ==
    /\ auth.last.op = "Login"
    /\ auth.last.method = "POST"
    /\ auth.last.body.decodes
    /\ auth.last.body.Email = "admin@org1.com"
    /\ auth.last.body.Password = "admin123"
    /\ auth.last.body.Organization = "org-2"
    /\ auth.last.result.status = 401
    /\ auth.last.result.response = <<>>

(***************************************************************************)
(* C25  logger.Get is thread-safe: in every interleaving of concurrent     *)
(* Get, SetLogger and Init calls, Get calls before the initialisation      *)
(* included, globalLogger is never written by one goroutine while another  *)
(* goroutine reads or writes it: every write of it happens while the       *)
(* writing goroutine holds mu exclusively and no other goroutine holds mu. *)
(***************************************************************************)
C25_WritesUnderExclusiveLock ==
    (logs.phase = "on" /\ logs.write.by # "none") =>
        /\ logs.write.exclusive
        /\ logs.write.others = {}

(***************************************************************************)
(* C26  logger.Init handles errors: when the first call of Init is given   *)
(* an invalid log level, or the logger cannot be built, Init returns a     *)
(* non-nil error, and Init returns nil only when globalLogger has been     *)
(* set.                                                                    *)
(***************************************************************************)
C26_InitReportsFailure ==
    (logs.phase = "on" /\ logs.returned.fn = "Init") =>
        /\ (logs.returned.first /\ logs.returned.failure # "none") => logs.returned.err # <<>>
        /\ logs.returned.err = <<>> => logs.globalLogger # NilLogger

(***************************************************************************)
(* C27  Graceful shutdown in startServers: after SIGINT or SIGTERM the     *)
(* context is cancelled, both servers are asked to stop, and startServers  *)
(* returns, without an error, only after the gRPC server and the HTTP      *)
(* gateway have both finished shutting down (neither is still serving or   *)
(* still stopping) and have no request left that they are handling.        *)
(***************************************************************************)
C27_ReturnsAfterBothStopped ==
    (srv.phase = "on" /\ srv.signalled /\ srv.main = "returned" /\ srv.ret = <<>>) =>
        /\ srv.ctx = "cancelled"
        /\ srv.grpc.state \notin {"serving", "stopping"} /\ srv.grpc.inflight = 0
        /\ srv.http.state \notin {"serving", "draining"} /\ srv.http.inflight = 0

====
